---- MODULE Spec2Model ----
(***************************************************************************)
(* Model of src/terminal.c: one terminal session (term_T) bound to a host  *)
(* buffer, its libvterm engine, its job/channel and the windows showing it.*)
(* The engine (libvterm), the job/channel layer and the host buffer are    *)
(* collaborators; they are modelled by the contract terminal.c relies on.  *)
(***************************************************************************)
EXTENDS Integers, Sequences, FiniteSets, TLC

\* ------------------------------------------------------------------ bounds
MaxRows == 2
MaxCols == 2
MaxScrolled == 2
MaxWinH == 3
MaxWinW == 2
MaxTerms == 3
MaxStored == 2
MaxPushed == 1
MaxChunk == 3
MaxItems == 2

\* ------------------------------------------------------- program constants
MAX_ROW == 999999
NUL == 0
SPACE == 32
CharA == 97
NL == 10
CAR == 13
\* A lead byte of a two-byte UTF-8 sequence and a trail byte.
Utf8Lead == 195
Utf8Trail == 169

VARIABLES
    tl_vterm,               \* TRUE when term->tl_vterm != NULL
    tl_job,                 \* jv_status of term->tl_job: "started" | "ended"
    ch_open,                \* channel_is_open(tl_job->jv_channel)
    tl_terminal_mode,
    tl_channel_closed,
    tl_rows, tl_cols,
    tl_rows_fixed, tl_cols_fixed,
    tl_title,               \* "NULL" or the title text
    tl_status_text,         \* "NULL" or the cached status text
    tl_dirty_row_start, tl_dirty_row_end,
    tl_scrollback,          \* sequence of sb_line_T: [sb_cols, sb_cells]
    tl_scrollback_scrolled,
    buf_lines,              \* lines of tl_buffer (a buffer always holds >= 1 line)
    screen,                 \* the engine's cell grid: rows of cells; <<>> once freed
    wins,                   \* window id -> [h, w] when it shows tl_buffer, else NoWin
    pc,                     \* where the host is: "main" or a term_vgetc() wait of terminal_loop
    fault,                  \* TRUE once an operation ran into undefined behaviour and never returned
    chan_log,               \* what the last step did with channel_send()
    winsize_report,         \* size handed to term_report_winsize() by the last step, or <<>>
    dmg,                    \* history: <<min start_row, max end_row>> of all damage callbacks, <<>> if none
    nPush,                  \* history: number of sb_pushline callbacks delivered
    flushBase,              \* history: ga_len when the flush began whose rows the store holds (-1: none)
    flushedN,               \* history: rows that flush appended to the store
    flushLines,             \* history: ml_line_count when that flush began
    first_term,             \* head of the list of active terminals, NULL when empty
    terms,                  \* term_T objects by address: the fields free_terminal() reads
    b_term,                 \* buf->b_term of the buffer made for each terminal, NULL when unset
    color_arg,              \* the colour, side and host capability of the last color2index() call
    color_ret,              \* what that call returned, NoIndex before it returns
    mv_rects,               \* history: dest and src of the last moverect callback, << >> if none
    mv_flip,                \* history: flips with every moverect callback delivered
    vt_pos,                 \* the engine's cursor position (state->pos): [row, col] from 0
    tl_cursor_pos,          \* the position the last movecursor callback reported
    w_wrow, w_wcol,         \* window id -> cursor row and column in that window
    wr_msg,                 \* the bytes msg[len] of the last term_write_job_output() call
    vt_calls,               \* the calls that call made to the engine, in order
    attr_call,              \* the last term_get_attr() call: arguments, result, cells read
    key_typed,              \* the last special key terminal_loop got from term_vgetc()
    upd_call,               \* the last term_update_window() call: result, rows drawn
    line_call,              \* the last term_getline() or term_scrape() call: row and result
    w_redr_type,            \* window id -> TRUE when wp->w_redr_type != 0 (marked for redraw)
    curwin                  \* the current window when it shows tl_buffer, else 0

vars == << tl_vterm, tl_job, ch_open, tl_terminal_mode, tl_channel_closed,
           tl_rows, tl_cols, tl_rows_fixed, tl_cols_fixed, tl_title,
           tl_status_text, tl_dirty_row_start, tl_dirty_row_end, tl_scrollback,
           tl_scrollback_scrolled, buf_lines, screen, wins, pc, fault,
           chan_log, winsize_report, dmg, nPush, flushBase, flushedN, flushLines,
           first_term, terms, b_term, color_arg, color_ret, mv_rects, mv_flip,
           vt_pos, tl_cursor_pos, w_wrow, w_wcol, wr_msg, vt_calls, attr_call,
           key_typed, upd_call, line_call, w_redr_type, curwin >>

\* groups used by UNCHANGED
sizeVars == << tl_rows, tl_cols, tl_rows_fixed, tl_cols_fixed, wins, winsize_report >>
dirtyVars == << tl_dirty_row_start, tl_dirty_row_end, dmg >>
storeVars == << tl_scrollback, tl_scrollback_scrolled, buf_lines, nPush >>
flushHist == << flushBase, flushedN, flushLines >>
jobVars == << tl_job, ch_open >>
colorVars == << color_arg, color_ret >>
regVars == << first_term, terms, b_term >>
moveVars == << mv_rects, mv_flip >>
cursorVars == << vt_pos, tl_cursor_pos, w_wrow, w_wcol >>
winVars == << wins, w_redr_type, curwin >>
writeVars == << wr_msg, vt_calls, attr_call, key_typed, upd_call, line_call >>
\* what the operations on one session leave alone
otherVars == << regVars, colorVars, moveVars, cursorVars, writeVars >>
\* everything but fault and the list of terminals
sessionVars == << tl_vterm, tl_job, ch_open, tl_terminal_mode, tl_channel_closed,
                 tl_rows, tl_cols, tl_rows_fixed, tl_cols_fixed, tl_title,
                 tl_status_text, tl_dirty_row_start, tl_dirty_row_end, tl_scrollback,
                 tl_scrollback_scrolled, buf_lines, screen, wins, pc,
                 chan_log, winsize_report, dmg, nPush, flushBase, flushedN, flushLines,
                 mv_rects, mv_flip, vt_pos, tl_cursor_pos, w_wrow, w_wcol, wr_msg, vt_calls,
                 attr_call, key_typed, upd_call, line_call, w_redr_type, curwin >>

MIN(x, y) == IF x < y THEN x ELSE y
MAX(x, y) == IF x > y THEN x ELSE y

\* ------------------------------------------------------------ cells, rows
\* VTermScreenCell: chars[0] and width are what terminal.c reads.
Cell(c) == [chars |-> c, width |-> 1]
EmptyCell == Cell(NUL)
\* A character of width 2 (U+3042) and the cell after it, which the engine
\* marks as its continuation.
CharWide == 12354
WideCell == [chars |-> CharWide, width |-> 2]
WideTail == [chars |-> -1, width |-> 1]
CellChars == {NUL, CharA}
BlankRow(cols) == [c \in 1..cols |-> EmptyCell]
BlankScreen(rows, cols) == [r \in 1..rows |-> BlankRow(cols)]

\* vterm_screen_get_cell(): 0 outside the engine's grid.  The engine gives a
\* cell width 2 when the next cell of the row is a continuation, so the cell
\* in its last column has width 1.
vterm_screen_get_cell(scr, r, c) ==
    IF r >= 1 /\ r <= Len(scr) /\ c >= 1 /\ c <= Len(scr[r])
    THEN [ok |-> TRUE,
          cell |-> [chars |-> scr[r][c].chars,
                    width |-> IF c < Len(scr[r]) /\ scr[r][c + 1] = WideTail THEN 2 ELSE 1]]
    ELSE [ok |-> FALSE, cell |-> EmptyCell]

\* ------------------------------------------------------------- host buffer
EmptyLine == << >>
EmptyBuffer == << EmptyLine >>

\* ml_append_buf(buf, lnum, line): insert after line lnum; FAIL when lnum is
\* beyond the last line.
ml_append_buf(lines, lnum, text) ==
    IF lnum > Len(lines) THEN lines
    ELSE SubSeq(lines, 1, lnum) \o << text >> \o SubSeq(lines, lnum + 1, Len(lines))

\* ml_delete(lnum): FAIL outside the buffer; deleting the only line leaves
\* the buffer with one empty line.
ml_delete(lines, lnum) ==
    IF lnum < 1 \/ lnum > Len(lines) THEN lines
    ELSE IF Len(lines) = 1 THEN EmptyBuffer
    ELSE SubSeq(lines, 1, lnum - 1) \o SubSeq(lines, lnum + 1, Len(lines))

ml_line_count(lines) == Len(lines)

\* ------------------------------------------------------- scrollback store
\* Outcome of the allocations one captured row needs:
\*   "ok"               every allocation succeeds
\*   "grow_fail"        ga_grow(&tl_scrollback) fails
\*   "cells_fail"       alloc() of the cell copy fails
\*   "line_fail"        ga_grow() of the text line in
\*                      add_scrollback_line_to_buffer fails
\*   "cells_line_fail"  alloc() of the cell copy and ga_grow() of the text
\*                      line both fail
AllocOk == {"ok"}
AllocAny == {"ok", "grow_fail", "cells_fail", "line_fail", "cells_line_fail"}

NoCells == << >>
SbLine(n, cells) == [sb_cols |-> n, sb_cells |-> cells]

\* The text add_scrollback_line_to_buffer builds from one stored line:
\* one character per cell, NUL shown as a space, stepping by the cell width.
RECURSIVE LineTextFrom(_, _)
LineTextFrom(line, col) ==
    IF col >= line.sb_cols THEN << >>
    ELSE LET cell == line.sb_cells[col + 1]
             c == cell.chars
         IN << IF c = NUL THEN SPACE ELSE c >>
              \o LineTextFrom(line, col + cell.width)

LineText(line) == LineTextFrom(line, 0)

\* A stored line whose cell array is missing although sb_cols > 0: reading
\* sb_cells[col] dereferences NULL.
LineUnreadable(line) == line.sb_cols > 0 /\ Len(line.sb_cells) < line.sb_cols

\* add_scrollback_line_to_buffer(term): append the text of the last stored
\* line after buffer line ga_len - 1; the first line replaces the empty line
\* of the empty buffer.  lineOk = FALSE: "goto failed".
add_scrollback_line_to_buffer(sb, lines, lineOk) ==
    LET lnum == Len(sb) - 1
        line == sb[Len(sb)]
        appended == ml_append_buf(lines, lnum, LineText(line))
    IN IF ~lineOk THEN lines
       ELSE IF lnum = 0 THEN ml_delete(appended, 2)
       ELSE appended

\* Effective width of row r as move_terminal_to_buffer computes it: the last
\* column below tl_cols whose cell exists and has chars[0] != NUL.
RECURSIVE RowLenUpTo(_, _, _)
RowLenUpTo(scr, r, col) ==
    IF col = 0 THEN 0
    ELSE LET g == vterm_screen_get_cell(scr, r, col)
         IN IF g.ok /\ g.cell.chars # NUL THEN col
            ELSE RowLenUpTo(scr, r, col - 1)

RowLen(scr, r, cols) == RowLenUpTo(scr, r, cols)

\* The cell copy of row r, columns 0 .. len-1 (a missing cell is zeroed).
RowCells(scr, r, len) ==
    [c \in 1..len |-> LET g == vterm_screen_get_cell(scr, r, c)
                      IN IF g.ok THEN g.cell ELSE [chars |-> NUL, width |-> 0]]

\* Mutant: skipped rows are dropped instead of stored as empty lines.
AddSkippedLines_dropped(first, last, sb, lines, al) == [sb |-> sb, lines |-> lines]

\* The "while (lines_skipped > 0)" loop: materialise the skipped rows
\* first .. last as empty lines, each with its own allocation outcome (an
\* empty line has no cell copy to allocate).
RECURSIVE AddSkippedLines(_, _, _, _, _)
AddSkippedLines(first, last, sb, lines, al) ==
    IF first > last THEN [sb |-> sb, lines |-> lines]
    ELSE IF al[first] = "grow_fail"
         THEN AddSkippedLines(first + 1, last, sb, lines, al)
         ELSE LET sb1 == Append(sb, SbLine(0, NoCells))
                  lineOk == al[first] \notin {"line_fail", "cells_line_fail"}
                  lines1 == add_scrollback_line_to_buffer(sb1, lines, lineOk)
              IN AddSkippedLines(first + 1, last, sb1, lines1, al)

\* The row loop of move_terminal_to_buffer from row r on, lines_skipped rows
\* pending.  al[r] is the allocation outcome of row r.
RECURSIVE FlushRows(_, _, _, _, _, _, _, _)
FlushRows(r, lines_skipped, sb, lines, scr, rows, cols, al) ==
    IF r > rows THEN [sb |-> sb, lines |-> lines]
    ELSE LET len == RowLen(scr, r, cols)
         IN IF len = 0
            THEN FlushRows(r + 1, lines_skipped + 1, sb, lines, scr, rows, cols, al)
            ELSE LET s1 == AddSkippedLines(r - lines_skipped, r - 1, sb, lines, al)
                     stored == al[r] \notin {"grow_fail", "cells_fail", "cells_line_fail"}
                     lineOk == al[r] \notin {"line_fail", "cells_line_fail"}
                     sb2 == IF stored
                            THEN Append(s1.sb, SbLine(len, RowCells(scr, r, len)))
                            ELSE s1.sb
                     lines2 == IF stored
                               THEN add_scrollback_line_to_buffer(sb2, s1.lines, lineOk)
                               ELSE s1.lines
                 IN FlushRows(r + 1, 0, sb2, lines2, scr, rows, cols, al)

\* move_terminal_to_buffer(term): the store and the buffer after the flush
\* of the tl_rows x tl_cols screen.
move_terminal_to_buffer(sb, lines, scr, rows, cols, al) ==
    FlushRows(1, 0, sb, lines, scr, rows, cols, al)

\* Mutant: the pushed line takes the place of the last stored line.
handle_pushline_overwrites(sb, scrolled, lines, cells, al) ==
    LET line == SbLine(Len(cells), cells)
        sb1 == IF sb = << >> THEN << line >> ELSE [sb EXCEPT ![Len(sb)] = line]
    IN [sb |-> sb1, scrolled |-> scrolled + 1, lines |-> lines, fault |-> FALSE]

\* Mutant: the pushed line is stored but tl_scrollback_scrolled is not counted.
handle_pushline_uncounted(sb, scrolled, lines, cells, al) ==
    LET sb1 == Append(sb, SbLine(Len(cells), cells))
    IN [sb |-> sb1, scrolled |-> scrolled,
        lines |-> add_scrollback_line_to_buffer(sb1, lines, TRUE), fault |-> FALSE]

\* handle_pushline(cols, cells): trailing empty cells are not stored.
RECURSIVE PushLen(_, _)
PushLen(cells, i) ==
    IF i = 0 THEN 0
    ELSE IF cells[i].chars # NUL THEN i ELSE PushLen(cells, i - 1)

\* The line is stored with sb_cols = len also when the cell copy could not
\* be allocated; add_scrollback_line_to_buffer() then reads sb_cells[0]
\* through NULL unless its own ga_grow() fails first.
handle_pushline(sb, scrolled, lines, cells, al) ==
    IF al = "grow_fail"
    THEN [sb |-> sb, scrolled |-> scrolled, lines |-> lines, fault |-> FALSE]
    ELSE LET len == PushLen(cells, Len(cells))
             cellsOk == al \notin {"cells_fail", "cells_line_fail"}
             lineOk == al \notin {"line_fail", "cells_line_fail"}
             p == IF len > 0 /\ cellsOk THEN SubSeq(cells, 1, len) ELSE NoCells
             line == SbLine(len, p)
             sb1 == Append(sb, line)
         IN IF LineUnreadable(line) /\ lineOk
            THEN [sb |-> sb1, scrolled |-> scrolled + 1, lines |-> lines, fault |-> TRUE]
            ELSE [sb |-> sb1, scrolled |-> scrolled + 1,
                  lines |-> add_scrollback_line_to_buffer(sb1, lines, lineOk),
                  fault |-> FALSE]

\* The rollback loop of term_leave_terminal_mode:
\*   while (ml_line_count > tl_scrollback_scrolled)
\*   { ml_delete(last); free last stored line; --ga_len; if (ga_len == 0) break; }
\* With ga_len = 0 on entry of the body the loop reads entry -1 of the store
\* and goes on with ga_len < 0: undefined behaviour, after which the loop
\* crashes or never ends; either way the operation does not return.
RECURSIVE RollbackLoop(_, _, _)
RollbackLoop(sb, lines, scrolled) ==
    IF ml_line_count(lines) > scrolled
    THEN LET lines1 == ml_delete(lines, ml_line_count(lines))
         IN IF Len(sb) = 0
            THEN [sb |-> sb, lines |-> lines1, fault |-> TRUE]
            ELSE LET sb1 == SubSeq(sb, 1, Len(sb) - 1)
                 IN IF Len(sb1) = 0
                    THEN [sb |-> sb1, lines |-> lines1, fault |-> FALSE]
                    ELSE RollbackLoop(sb1, lines1, scrolled)
    ELSE [sb |-> sb, lines |-> lines, fault |-> FALSE]


\* ------------------------------------------------------------ job, status
\* term_job_running(term)
term_job_running == tl_job = "started" /\ ch_open

\* term_use_loop(): keys go to the job
term_use_loop == ~tl_terminal_mode /\ tl_vterm /\ term_job_running

\* term_in_terminal_mode()
term_in_terminal_mode == tl_terminal_mode

Titles == {"title"}

\* The text term_get_status_text() puts between the brackets.
StatusTextOf(mode, title, running) ==
    IF mode THEN (IF running THEN "Terminal" ELSE "Terminal-finished")
    ELSE IF title # "NULL" THEN title
    ELSE IF running THEN "running" ELSE "finished"

\* --------------------------------------------------------------- windows
WinIds == {1, 2}
NoWin == [h |-> -1, w |-> -1]
Showing(ws) == {i \in WinIds : ws[i] # NoWin}

\* -------------------------------------------------------------- channel
NoSend == [src |-> "none", calls |-> 0, queued |-> 0]
\* channel_send(): the bytes are queued only on an open channel.
channel_send(src, n) == [src |-> src, calls |-> n, queued |-> IF ch_open THEN n ELSE 0]

\* ----------------------------------------------------------------- keys
\* Keys term_vgetc() can return to terminal_loop (default 'termkey').
LoopKeys == {"a", "Ctrl_W", "K_IGNORE", "NUL", "K_HELP"}
LoopKeys2 == {".", "N", "quote", "a"}
\* Keys send_keys_to_term hands back to Normal mode (returns FAIL).
NormalModeKeys == {"NUL", "K_ZERO", "K_IGNORE"}
\* Keys term_convert_key() returns 0 for: the reserved keys, the keys of the
\* GUI and of other optional features (their cases are compiled in with the
\* feature that makes the key), the mouse buttons marked TODO, and the
\* bracketed-paste markers, which only go to the engine.
ReservedKeys == {"K_IGNORE", "K_NOP", "K_UNDO", "K_HELP", "K_SELECT"}
GuiKeys == {"K_VER_SCROLLBAR", "K_HOR_SCROLLBAR", "K_TABLINE", "K_TABMENU", "K_DROP",
            "K_CURSORHOLD"}
UnsupportedMouseKeys == {"K_MOUSELEFT", "K_MOUSERIGHT", "K_X1MOUSE", "K_X1DRAG", "K_X1RELEASE",
                         "K_X2MOUSE", "K_X2DRAG", "K_X2RELEASE"}
PasteKeys == {"K_PS", "K_PE"}
\* Keys send_keys_to_term() tests the mouse position for.
MouseClickKeys == {"K_LEFTDRAG", "K_MIDDLEDRAG", "K_RIGHTDRAG", "K_X1DRAG", "K_X2DRAG",
                   "K_LEFTMOUSE", "K_LEFTMOUSE_NM", "K_LEFTRELEASE", "K_LEFTRELEASE_NM",
                   "K_MIDDLEMOUSE", "K_MIDDLERELEASE", "K_RIGHTMOUSE", "K_RIGHTRELEASE",
                   "K_X1MOUSE", "K_X1RELEASE", "K_X2MOUSE", "K_X2RELEASE"}
\* Special keys term_vgetc() can return; K_S_TAB has no case in
\* term_convert_key() and goes to the engine as a character.
SpecialKeys == ReservedKeys \cup GuiKeys \cup UnsupportedMouseKeys \cup PasteKeys
               \cup {"K_LEFTMOUSE", "K_LEFTDRAG", "K_RIGHTMOUSE", "K_UP", "K_S_TAB", "K_ZERO"}

\* Mutant: the X1 and X2 buttons are encoded like the other buttons.
term_convert_key_x_buttons(c) ==
    IF c \in ReservedKeys \cup GuiKeys \cup {"K_MOUSELEFT", "K_MOUSERIGHT"} \cup PasteKeys
    THEN 0 ELSE 1

\* term_convert_key(): number of bytes read back from the engine's encoder.
term_convert_key(c) ==
    IF c \in ReservedKeys \cup GuiKeys \cup UnsupportedMouseKeys \cup PasteKeys THEN 0 ELSE 1

\* ------------------------------------------------- the list of terminals
\* Addresses of the term_T objects ex_terminal() can allocate; NULL is 0.
TermIds == 1..MaxTerms
NULL == 0

\* A term_T that was never allocated.  alloc: "unused" | "live" | "freed";
\* tl_job is the jv_status of the job or "NULL"; job_refs counts the
\* references the terminal holds on its job; ga_len is tl_scrollback.ga_len
\* and ml_line_count the number of lines of the terminal's buffer (a new
\* buffer has one empty line); the n_* fields count the calls of job_stop(),
\* job_unref(), vterm_free() and free_scrollback() made for it.
NoTerm ==
    [alloc |-> "unused", linked |-> FALSE, tl_next |-> NULL, tl_vterm |-> FALSE,
     tl_job |-> "NULL", jv_channel |-> FALSE, ch_open |-> FALSE, job_refs |-> 0,
     tl_terminal_mode |-> FALSE, tl_channel_closed |-> FALSE, ga_len |-> 0,
     tl_scrollback_scrolled |-> 0, ml_line_count |-> 1,
     n_job_stop |-> 0, n_job_unref |-> 0, n_vterm_free |-> 0, n_free_scrollback |-> 0]

RegInit ==
    /\ first_term = NULL
    /\ terms = [t \in TermIds |-> NoTerm]
    /\ b_term = [b \in TermIds |-> NULL]

\* The three variables as one value, for the functions below.
Reg == [first_term |-> first_term, terms |-> terms, b_term |-> b_term, fault |-> FALSE]

RegIs(R) ==
    /\ first_term' = R.first_term
    /\ terms' = R.terms
    /\ b_term' = R.b_term
    /\ fault' = R.fault

\* The terminals reached from tp by tl_next, in order.
RECURSIVE TermList(_, _)
TermList(tp, ts) == IF tp = NULL THEN << >> ELSE << tp >> \o TermList(ts[tp].tl_next, ts)

\* Mutant: unlinking a terminal cuts the list off behind it.
UnlinkFrom_cut(tp, term, ts) ==
    IF ts[tp].tl_next = NULL THEN ts
    ELSE IF ts[tp].tl_next = term THEN [ts EXCEPT ![tp].tl_next = NULL]
    ELSE [ts EXCEPT ![ts[tp].tl_next].tl_next = NULL]

\* free_terminal(): the "for (tp = first_term; tp->tl_next != NULL; ...)" loop
\* from tp on; it stops without a change when term is not found.
RECURSIVE UnlinkFrom(_, _, _)
UnlinkFrom(tp, term, ts) ==
    IF ts[tp].tl_next = NULL THEN ts
    ELSE IF ts[tp].tl_next = term THEN [ts EXCEPT ![tp].tl_next = ts[term].tl_next]
    ELSE UnlinkFrom(ts[tp].tl_next, term, ts)

\* term_free_vterm(term)
term_free_vterm(tm) ==
    [tm EXCEPT !.tl_vterm = FALSE,
               !.n_vterm_free = IF tm.tl_vterm THEN @ + 1 ELSE @]

\* free_scrollback(term)
free_scrollback(tm) ==
    [tm EXCEPT !.ga_len = 0, !.n_free_scrollback = @ + 1]

\* Mutant: the job is killed whatever its status.
FreeJob_always_stops(tm) ==
    IF tm.tl_job = "NULL" THEN tm
    ELSE [tm EXCEPT !.n_job_stop = @ + 1, !.n_job_unref = @ + 1, !.job_refs = @ - 1]

\* The "if (term->tl_job != NULL)" part of free_terminal().
FreeJob(tm) ==
    IF tm.tl_job = "NULL" THEN tm
    ELSE [tm EXCEPT !.n_job_stop = IF tm.tl_job \notin {"ended", "failed"} THEN @ + 1 ELSE @,
                    !.n_job_unref = @ + 1,
                    !.job_refs = @ - 1]

\* Mutant: free_terminal() leaves buf->b_term pointing at the freed term_T.
free_terminal_keeps_b_term(R, buf) ==
    LET term == R.b_term[buf]
        ts1 == IF R.first_term = term \/ R.first_term = NULL THEN R.terms
               ELSE UnlinkFrom(R.first_term, term, R.terms)
        tm == [term_free_vterm(free_scrollback(FreeJob(ts1[term]))) EXCEPT !.alloc = "freed"]
    IN [R EXCEPT !.first_term = IF @ = term THEN R.terms[term].tl_next ELSE @,
                 !.terms = [ts1 EXCEPT ![term] = tm]]

\* free_terminal(buf) applied to the list R.
free_terminal(R, buf) ==
    LET term == R.b_term[buf]
    IN IF term = NULL THEN R
       ELSE IF R.first_term # term /\ R.first_term = NULL
       THEN [R EXCEPT !.fault = TRUE]
       ELSE LET ts1 == IF R.first_term = term THEN R.terms
                       ELSE UnlinkFrom(R.first_term, term, R.terms)
                first1 == IF R.first_term = term THEN R.terms[term].tl_next
                          ELSE R.first_term
                tm == [term_free_vterm(free_scrollback(FreeJob(ts1[term])))
                          EXCEPT !.alloc = "freed"]
            IN [R EXCEPT !.first_term = first1,
                         !.terms = [ts1 EXCEPT ![term] = tm],
                         !.b_term = [@ EXCEPT ![buf] = NULL]]

\* What term_and_job_init() can leave in a term_T: create_vterm() was called,
\* and job_start() gave a job (counted once more) or NULL.
InitOutcomes ==
    { [tl_job |-> "started", jv_channel |-> TRUE],      \* OK
      [tl_job |-> "NULL", jv_channel |-> FALSE],        \* FAIL: no job
      [tl_job |-> "started", jv_channel |-> FALSE],     \* FAIL: no channel
      [tl_job |-> "failed", jv_channel |-> TRUE] }      \* FAIL: JOB_FAILED

InitOk(o) == o.tl_job \notin {"NULL", "failed"} /\ o.jv_channel

\* term_and_job_init(term, ...)
term_and_job_init(tm, o) ==
    [tm EXCEPT !.tl_vterm = TRUE,
               !.tl_job = o.tl_job,
               !.jv_channel = o.jv_channel,
               !.ch_open = o.jv_channel,
               !.job_refs = IF o.tl_job # "NULL" THEN @ + 1 ELSE @]

\* ex_terminal() up to term_and_job_init(): the term_T at address t is
\* allocated, bound to the new buffer and linked at the head of the list.
LinkTerm(R, t) ==
    [R EXCEPT !.terms = [@ EXCEPT ![t] = [NoTerm EXCEPT !.alloc = "live", !.linked = TRUE,
                                                        !.tl_next = R.first_term]],
              !.first_term = t,
              !.b_term = [@ EXCEPT ![t] = t]]

\* The wipe of the buffer calls free_terminal() for it.
WipeBuffer(R, buf) == free_terminal(R, buf)

\* ex_terminal() with the outcome o of term_and_job_init(); on FAIL it calls
\* free_terminal(curbuf) and wipes the buffer.
ex_terminal_started(R, t, o) ==
    LET R1 == LinkTerm(R, t)
        R2 == [R1 EXCEPT !.terms = [@ EXCEPT ![t] = term_and_job_init(@, o)]]
    IN IF InitOk(o) THEN R2 ELSE WipeBuffer(free_terminal(R2, t), t)

\* The address ex_terminal() gets from alloc_clear(): one never used before.
FreshTerm(t) == terms[t].alloc = "unused" /\ \A u \in TermIds : u < t => terms[u].alloc # "unused"

\* :terminal
ex_terminal ==
    /\ ~fault
    /\ \E t \in TermIds, o \in InitOutcomes :
         /\ FreshTerm(t)
         /\ RegIs(ex_terminal_started(Reg, t, o))
    /\ UNCHANGED << sessionVars, colorVars >>

\* :terminal when the split fails: the term_T is freed before it is linked.
ex_terminal_split_failed ==
    /\ ~fault
    /\ \E t \in TermIds :
         /\ FreshTerm(t)
         /\ terms' = [terms EXCEPT ![t] = [NoTerm EXCEPT !.alloc = "freed"]]
    /\ UNCHANGED << first_term, b_term, fault, sessionVars, colorVars >>

\* The host wipes out the buffer of a terminal.
do_buffer_wipe ==
    /\ ~fault
    /\ \E buf \in TermIds :
         /\ b_term[buf] # NULL
         /\ RegIs(WipeBuffer(Reg, buf))
    /\ UNCHANGED << sessionVars, colorVars >>

\* The events below reach one terminal of the list; of each, the effect on
\* the fields free_terminal() reads is kept.
Listed(t) ==
    \E i \in 1..Len(TermList(first_term, terms)) : TermList(first_term, terms)[i] = t

\* term_job_running(term)
TermJobRunning(tm) == tm.tl_job = "started" /\ tm.ch_open

\* The store and the buffer of tm after lines were added until the store
\* holds n: add_scrollback_line_to_buffer() appends each, and the first
\* line of a store replaces the empty line of the buffer.
StoreLines(tm, n) ==
    IF n <= tm.ga_len THEN tm
    ELSE [tm EXCEPT !.ga_len = n,
                    !.ml_line_count = @ + (n - tm.ga_len) - (IF tm.ga_len = 0 THEN 1 ELSE 0)]

\* cleanup_vterm(term); the flush leaves n lines in the scrollback.
CleanupVterm(tm, n) ==
    [term_free_vterm(StoreLines(tm, n)) EXCEPT !.tl_terminal_mode = FALSE]

\* write_to_term() for the terminal of the channel: a row scrolls off the
\* engine's screen and handle_pushline() stores it.
handle_pushline_in_list ==
    /\ ~fault
    /\ \E t \in TermIds :
         /\ Listed(t) /\ terms[t].tl_vterm /\ terms[t].ch_open
         /\ terms[t].ga_len < MaxStored /\ terms[t].tl_scrollback_scrolled < MaxPushed
         /\ terms' = [terms EXCEPT ![t] =
                          [StoreLines(@, @.ga_len + 1)
                              EXCEPT !.tl_scrollback_scrolled = @ + 1]]
    /\ UNCHANGED << first_term, b_term, fault, sessionVars, colorVars >>

\* term_job_ended(job) finds the terminal of the job in the list.
term_job_ended_in_list ==
    /\ ~fault
    /\ \E t \in TermIds :
         /\ Listed(t) /\ terms[t].tl_job = "started"
         /\ terms' = [terms EXCEPT ![t].tl_job = "ended"]
    /\ UNCHANGED << first_term, b_term, fault, sessionVars, colorVars >>

\* term_channel_closed(ch) finds the terminal of the channel in the list.
term_channel_closed_in_list ==
    /\ ~fault
    /\ \E t \in TermIds :
         /\ Listed(t) /\ terms[t].ch_open
         /\ LET tm == [terms[t] EXCEPT !.ch_open = FALSE, !.tl_channel_closed = TRUE]
            IN IF tm.tl_terminal_mode
               THEN terms' = [terms EXCEPT ![t] = tm]
               ELSE \E n \in tm.ga_len..MaxStored :
                      terms' = [terms EXCEPT ![t] = CleanupVterm(tm, n)]
    /\ UNCHANGED << first_term, b_term, fault, sessionVars, colorVars >>

\* Mutant: terminal_loop() runs for a terminal without a running job.
CanEnterTerminalMode_any(tm) == ~tm.tl_terminal_mode

\* terminal_loop() runs while term_use_loop() and, after each term_vgetc(),
\* while the vterm exists and the job is running; only then CTRL-W N reaches
\* term_enter_terminal_mode().
CanEnterTerminalMode(tm) ==
    ~tm.tl_terminal_mode /\ tm.tl_vterm /\ TermJobRunning(tm)

\* terminal_loop() in the buffer of terminal t gets CTRL-W N:
\* term_enter_terminal_mode().
term_enter_terminal_mode_in_list ==
    /\ ~fault
    /\ \E t \in TermIds :
         /\ Listed(t)
         /\ CanEnterTerminalMode(terms[t])
         /\ \E n \in terms[t].ga_len..MaxStored :
              terms' = [terms EXCEPT ![t] = [StoreLines(@, n) EXCEPT !.tl_terminal_mode = TRUE]]
    /\ UNCHANGED << first_term, b_term, fault, sessionVars, colorVars >>

\* The loop of term_leave_terminal_mode() that takes the lines back: it runs
\* while the buffer has more lines than have scrolled, and deletes the last
\* line of the buffer (the last line of a buffer is emptied instead) and of
\* the store until the store is empty.  Entered with an empty store it
\* reads the entry before the first one (undefined behaviour).
RECURSIVE RollbackInList(_)
RollbackInList(tm) ==
    IF tm.ml_line_count > tm.tl_scrollback_scrolled
    THEN IF tm.ga_len = 0
         THEN [tm |-> tm, fault |-> TRUE]
         ELSE LET tm1 == [tm EXCEPT !.ml_line_count = IF @ > 1 THEN @ - 1 ELSE @,
                                    !.ga_len = @ - 1]
              IN IF tm1.ga_len = 0 THEN [tm |-> tm1, fault |-> FALSE]
                 ELSE RollbackInList(tm1)
    ELSE [tm |-> tm, fault |-> FALSE]

\* term_leave_terminal_mode() in the buffer of terminal t.
term_leave_terminal_mode_in_list ==
    /\ ~fault
    /\ \E t \in TermIds :
         /\ Listed(t) /\ terms[t].tl_terminal_mode
         /\ LET res == RollbackInList(terms[t])
            IN IF res.fault
               THEN fault' = TRUE /\ UNCHANGED terms
               ELSE /\ fault' = FALSE
                    /\ LET tm == [res.tm EXCEPT !.tl_terminal_mode = FALSE]
                       IN IF tm.tl_channel_closed
                          THEN \E n \in tm.ga_len..MaxStored :
                                 terms' = [terms EXCEPT ![t] = CleanupVterm(tm, n)]
                          ELSE terms' = [terms EXCEPT ![t] = tm]
    /\ UNCHANGED << first_term, b_term, sessionVars, colorVars >>

\* term_change_in_curbuf() in the buffer of terminal t: the store of a
\* finished terminal is freed.
term_change_in_curbuf_in_list ==
    /\ ~fault
    /\ \E t \in TermIds :
         /\ Listed(t)
         /\ terms' = IF ~terms[t].tl_vterm /\ terms[t].ga_len > 0
                     THEN [terms EXCEPT ![t] = free_scrollback(@)]
                     ELSE terms
    /\ UNCHANGED << first_term, b_term, fault, sessionVars, colorVars >>

\* ---------------------------------------------------------------- colours
\* The cterm colour numbers lookup_color() takes from the color_names[]
\* order: Black, DarkBlue, DarkGreen, DarkCyan, DarkRed, DarkMagenta, Brown,
\* DarkYellow, Gray, Grey, LightGray, LightGrey, DarkGray, DarkGrey, Blue,
\* LightBlue, Green, LightGreen, Cyan, LightCyan, Red, LightRed, Magenta,
\* LightMagenta, Yellow, LightYellow, White.
color_numbers_16 ==
    << 0, 1, 2, 3, 4, 5, 6, 6, 7, 7, 7, 7, 8, 8, 9, 9, 10, 10, 11, 11, 12, 12, 13, 13,
       14, 14, 15 >>
color_numbers_8 ==
    << 0, 4, 2, 6, 1, 5, 3, 3, 7, 7, 7, 7, 8, 8, 12, 12, 10, 10, 14, 14, 9, 9, 13, 13,
       11, 11, 15 >>
color_numbers_88 ==
    << 0, 4, 2, 6, 1, 5, 3, 32, 84, 84, 7, 7, 82, 82, 12, 43, 10, 61, 14, 63, 9, 74, 13,
       75, 11, 78, 15 >>
color_numbers_256 ==
    << 0, 4, 2, 6, 1, 5, 3, 130, 248, 248, 7, 7, 242, 242, 12, 81, 10, 121, 14, 159, 9,
       224, 13, 225, 11, 229, 15 >>

\* lookup_color(idx, foreground) for a host with t_colors colours whose
\* colour escape sequence is xterm-like (ends in 'm') or not.
lookup_color(idx, foreground, t_colors, xterm) ==
    IF t_colors = 8 THEN color_numbers_8[idx + 1] % 8
    ELSE IF (t_colors = 16 \/ t_colors = 88 \/ t_colors >= 256) /\ xterm
    THEN IF t_colors = 88 THEN color_numbers_88[idx + 1]
         ELSE IF t_colors >= 256 THEN color_numbers_256[idx + 1]
         ELSE color_numbers_8[idx + 1]
    ELSE color_numbers_16[idx + 1]

\* The index into color_names[] of the colour color2index() recognises, -1
\* when it is none of them.
NamedColor(red, green, blue) ==
    IF red = 0
    THEN IF green = 0 THEN (IF blue = 0 THEN 0 ELSE IF blue = 224 THEN 1 ELSE -1)
         ELSE IF green = 224 THEN (IF blue = 0 THEN 2 ELSE IF blue = 224 THEN 3 ELSE -1)
         ELSE -1
    ELSE IF red = 224
    THEN IF green = 0 THEN (IF blue = 0 THEN 4 ELSE IF blue = 224 THEN 5 ELSE -1)
         ELSE IF green = 224 THEN (IF blue = 0 THEN 6 ELSE IF blue = 224 THEN 8 ELSE -1)
         ELSE -1
    ELSE IF red = 128
    THEN IF green = 128 /\ blue = 128 THEN 12 ELSE -1
    ELSE IF red = 255
    THEN IF green = 64 THEN (IF blue = 64 THEN 20 ELSE IF blue = 255 THEN 22 ELSE -1)
         ELSE IF green = 255 THEN (IF blue = 64 THEN 24 ELSE IF blue = 255 THEN 26 ELSE -1)
         ELSE -1
    ELSE IF red = 64
    THEN IF green = 64 THEN (IF blue = 255 THEN 14 ELSE -1)
         ELSE IF green = 255 THEN (IF blue = 64 THEN 16 ELSE IF blue = 255 THEN 18 ELSE -1)
         ELSE -1
    ELSE -1

\* The cutoff[23] table of the 24-colour greyscale.
cutoff ==
    << 5, 16, 27, 38, 49, 60, 71, 82, 93, 104, 115, 127, 138, 149, 160, 171, 182, 193,
       204, 215, 226, 237, 249 >>

\* "for (i = 0; i < 23; ++i) if (red < cutoff[i]) return i + 233; return 256;"
RECURSIVE GreyIndex(_, _)
GreyIndex(red, i) ==
    IF i >= 23 THEN 256
    ELSE IF red < cutoff[i + 1] THEN i + 233
    ELSE GreyIndex(red, i + 1)

\* Mutant: the colour cube cuts each component down instead of rounding it.
ColorCube_truncates(red, green, blue) ==
    17 + (red \div 51) * 36 + (green \div 51) * 6 + blue \div 51

\* Mutant: the colour cube is counted from 0.
ColorCube_from_zero(red, green, blue) ==
    ((red + 25) \div 51) * 36 + ((green + 25) \div 51) * 6 + (blue + 25) \div 51

\* The 216-colour cube.
ColorCube(red, green, blue) ==
    17 + ((red + 25) \div 51) * 36 + ((green + 25) \div 51) * 6 + (blue + 25) \div 51

\* color2index(color, foreground): "First color is 1.  Return 0 if no match
\* found."
color2index(a) ==
    LET idx == NamedColor(a.red, a.green, a.blue)
    IN IF idx >= 0 THEN lookup_color(idx, a.foreground, a.t_colors, a.xterm) + 1
       ELSE IF a.t_colors >= 256
       THEN IF a.red = a.blue /\ a.red = a.green THEN GreyIndex(a.red, 0)
            ELSE ColorCube(a.red, a.green, a.blue)
       ELSE 0

\* Before color2index() has returned.
NoIndex == -1

\* Colour components, sides and host capabilities the calls are made with.
ColorLevels == {0, 5, 64, 128, 224, 255}
ColorCounts == {8, 16, 88, 256}
ColorArgs ==
    [red : ColorLevels, green : ColorLevels, blue : ColorLevels, foreground : BOOLEAN,
     t_colors : ColorCounts, xterm : BOOLEAN]

\* No color2index() call is going on.
ColorIdle ==
    /\ color_arg = [red |-> 0, green |-> 0, blue |-> 0, foreground |-> TRUE,
                    t_colors |-> 8, xterm |-> FALSE]
    /\ color_ret = NoIndex

\* cell2attr() without GUI and 'termguicolors': color2index() for one colour
\* of the cell.
cell2attr ==
    /\ ~fault
    /\ color_ret' = color2index(color_arg)
    /\ UNCHANGED << color_arg, sessionVars, fault, regVars >>

\* ------------------------------------------------------------------ Init
\* The state when ex_terminal() returns after term_and_job_init() gave OK,
\* the new window being the only one on the buffer.
InitSession(rows, cols, rfixed, cfixed, ws) ==
    /\ tl_vterm = TRUE
    /\ tl_job = "started"
    /\ ch_open = TRUE
    /\ tl_terminal_mode = FALSE
    /\ tl_channel_closed = FALSE
    /\ tl_rows = rows
    /\ tl_cols = cols
    /\ tl_rows_fixed = rfixed
    /\ tl_cols_fixed = cfixed
    /\ tl_title = "NULL"
    /\ tl_status_text = "NULL"
    /\ tl_dirty_row_start = 0
    /\ tl_dirty_row_end = MAX_ROW
    /\ tl_scrollback = << >>
    /\ tl_scrollback_scrolled = 0
    /\ buf_lines = EmptyBuffer
    /\ screen = BlankScreen(rows, cols)
    /\ wins = ws
    /\ pc = "main"
    /\ fault = FALSE
    /\ chan_log = NoSend
    /\ winsize_report = << >>
    /\ dmg = << >>
    /\ nPush = 0
    /\ flushBase = -1
    /\ flushedN = 0
    /\ flushLines = 0
    /\ mv_rects = << >>
    /\ mv_flip = FALSE
    /\ vt_pos = [row |-> 0, col |-> 0]
    /\ tl_cursor_pos = [row |-> 0, col |-> 0]
    /\ w_wrow = [i \in WinIds |-> 0]
    /\ w_wcol = [i \in WinIds |-> 0]
    /\ wr_msg = << >>
    /\ vt_calls = << >>
    /\ attr_call = [lnum |-> 0, col |-> 0, ret |-> << >>, read |-> {}]
    /\ key_typed = [c |-> "none", outside |-> FALSE, flip |-> FALSE]
    /\ upd_call = [wp |-> 0, ret |-> "none", lines |-> << >>, flip |-> FALSE]
    /\ w_redr_type = [i \in WinIds |-> ws[i] # NoWin]
    /\ curwin = 1
    /\ line_call = [fn |-> "none", row |-> 0, found |-> FALSE, text |-> << >>,
                    cells |-> << >>, flip |-> FALSE]
    /\ RegInit

Init ==
    /\ \E rows \in 1..MaxRows, cols \in 1..MaxCols :
        InitSession(rows, cols, FALSE, FALSE,
                    [i \in WinIds |-> IF i = 1 THEN [h |-> rows, w |-> cols] ELSE NoWin])
    /\ ColorIdle

\* ------------------------------------------------------ engine callbacks
\* Mutant: the callback's range replaces the dirty range.
handle_damage_overwrite(start_row, end_row) ==
    /\ tl_dirty_row_start' = start_row
    /\ tl_dirty_row_end' = end_row

\* handle_damage(rect)
handle_damage(start_row, end_row) ==
    /\ tl_dirty_row_start' = MIN(tl_dirty_row_start, start_row)
    /\ tl_dirty_row_end' = MAX(tl_dirty_row_end, end_row)

\* History of the damage callbacks, recorded when track is TRUE (the
\* specification that states a property of the history records it).
NoteDamage(track, start_row, end_row) ==
    dmg' = IF ~track THEN dmg
           ELSE IF dmg = << >> THEN << start_row, end_row >>
           ELSE << MIN(dmg[1], start_row), MAX(dmg[2], end_row) >>

\* Mutant: a new title leaves the cached status text alone.
handle_settermprop_title_keeps_cache(text) ==
    /\ tl_title' = text
    /\ tl_status_text' = tl_status_text

\* handle_settermprop(VTERM_PROP_TITLE, value)
handle_settermprop_title(text) ==
    /\ tl_title' = text
    /\ tl_status_text' = "NULL"

\* set_terminal_mode(term, on)
set_terminal_mode(on) ==
    /\ tl_terminal_mode' = on
    /\ tl_status_text' = "NULL"

\* Mutant: write_to_term() does not test for a missing vterm.
NotWriting_never == FALSE

\* write_to_term(): "if (term->tl_vterm == NULL)" the output is dropped
\* ("NOT writing %d bytes to terminal").  Output reaches write_to_term()
\* while the channel is open, or late, after the vterm was freed.
NotWriting == ~tl_vterm

\* -------------------------------------------------------------- resizing
\* The engine's grid after vterm_set_size(rows, cols): rows and columns are
\* cut off or added blank; a character of width 2 that loses its second
\* cell stays in the last column with width 1.
ResizeScreen(scr, rows, cols) ==
    [r \in 1..rows |-> [c \in 1..cols |->
        IF r <= Len(scr) /\ c <= Len(scr[r])
        THEN [chars |-> scr[r][c].chars,
              width |-> IF scr[r][c].width = 2 /\ c >= cols THEN 1 ELSE scr[r][c].width]
        ELSE EmptyCell]]

\* The fields a redraw reads and writes, as one value: the size of the
\* session, the windows on the buffer and their redraw marks, the engine's
\* grid and cursor, the cursor of the windows, and the size handed to
\* term_report_winsize().
View ==
    [tl_rows |-> tl_rows, tl_cols |-> tl_cols, wins |-> wins, w_redr_type |-> w_redr_type,
     screen |-> screen, vt_pos |-> vt_pos, tl_cursor_pos |-> tl_cursor_pos,
     w_wrow |-> w_wrow, w_wcol |-> w_wcol, winsize_report |-> << >>]

\* The step leaves these fields as V has them.
SetView(V) ==
    /\ tl_rows' = V.tl_rows
    /\ tl_cols' = V.tl_cols
    /\ wins' = V.wins
    /\ w_redr_type' = V.w_redr_type
    /\ screen' = V.screen
    /\ vt_pos' = V.vt_pos
    /\ tl_cursor_pos' = V.tl_cursor_pos
    /\ w_wrow' = V.w_wrow
    /\ w_wcol' = V.w_wcol
    /\ winsize_report' = V.winsize_report

\* redraw_buf_later(tl_buffer, type), redraw_buf_and_status_later() and the
\* redraw_win_later() loop of move_terminal_to_buffer(): every window on the
\* buffer is marked for redraw.
redraw_buf_later(ws, redr) == [i \in WinIds |-> ws[i] # NoWin \/ redr[i]]

\* Mutant: only the window being updated decides the size.
SmallestSize_own(i, rows, cols, ws) == [rows |-> rows, cols |-> cols]

\* The FOR_ALL_WINDOWS loop of term_update_window from window i on:
\* "When more than one window shows the same terminal, use the smallest size."
RECURSIVE SmallestSize(_, _, _, _)
SmallestSize(i, rows, cols, ws) ==
    IF i > Cardinality(WinIds) THEN [rows |-> rows, cols |-> cols]
    ELSE IF ws[i] = NoWin THEN SmallestSize(i + 1, rows, cols, ws)
    ELSE SmallestSize(i + 1,
                      IF ~tl_rows_fixed /\ rows > ws[i].h THEN ws[i].h ELSE rows,
                      IF ~tl_cols_fixed /\ cols > ws[i].w THEN ws[i].w ELSE cols,
                      ws)

\* The size term_update_window(wp) hands to vterm_set_size().
NegotiatedSize(V, wp) ==
    SmallestSize(1,
                 IF tl_rows_fixed THEN V.tl_rows ELSE V.wins[wp].h,
                 IF tl_cols_fixed THEN V.tl_cols ELSE V.wins[wp].w,
                 V.wins)

\* Whether term_update_window(wp) adjusts the size of the vterm.
NeedsResize(V, wp) ==
    \/ (~tl_rows_fixed /\ V.tl_rows # V.wins[wp].h)
    \/ (~tl_cols_fixed /\ V.tl_cols # V.wins[wp].w)

\* Mutant: the resize callback stores the rows and forgets the columns.
handle_resize_rows_only(V, rows, cols) ==
    [V EXCEPT !.tl_rows = rows,
              !.wins = [i \in WinIds |->
                           IF V.wins[i] = NoWin THEN NoWin ELSE [h |-> rows, w |-> cols]],
              !.w_redr_type = redraw_buf_later(V.wins, V.w_redr_type)]

\* handle_resize(rows, cols), the engine's callback on vterm_set_size().
handle_resize(V, rows, cols) ==
    [V EXCEPT !.tl_rows = rows,
              !.tl_cols = cols,
              !.wins = [i \in WinIds |->
                           IF V.wins[i] = NoWin THEN NoWin ELSE [h |-> rows, w |-> cols]],
              !.w_redr_type = redraw_buf_later(V.wins, V.w_redr_type)]

\* position_cursor(wp, pos): the cursor of a window of height h and width w.
position_cursor(win, pos) ==
    [row |-> MIN(pos.row, MAX(0, win.h - 1)), col |-> MIN(pos.col, MAX(0, win.w - 1))]

\* position_cursor(wp, pos) for window wp of V.
PositionCursor(V, wp, pos) ==
    [V EXCEPT !.w_wrow[wp] = position_cursor(V.wins[wp], pos).row,
              !.w_wcol[wp] = position_cursor(V.wins[wp], pos).col]

\* The engine's cursor after vterm_set_size(rows, cols): it is kept inside the
\* new size ("if (pos.row >= rows) pos.row = rows - 1", the same for col).
ResizedCursor(pos, rows, cols) ==
    [row |-> IF pos.row >= rows THEN rows - 1 ELSE pos.row,
     col |-> IF pos.col >= cols THEN cols - 1 ELSE pos.col]

\* handle_movecursor(pos), the engine's callback when its cursor moved: the
\* cursor of every window on the buffer.
handle_movecursor(V, pos) ==
    [V EXCEPT !.tl_cursor_pos = pos,
              !.w_wrow = [i \in WinIds |->
                             IF V.wins[i] # NoWin THEN position_cursor(V.wins[i], pos).row
                             ELSE V.w_wrow[i]],
              !.w_wcol = [i \in WinIds |->
                             IF V.wins[i] # NoWin THEN position_cursor(V.wins[i], pos).col
                             ELSE V.w_wcol[i]]]

\* vterm_set_size(vterm, rows, cols): the engine resizes its grid and calls
\* the resize callback; it moves its cursor into the new size and reports
\* the move, if any, with movecursor.
vterm_set_size(V, rows, cols) ==
    LET V1 == handle_resize([V EXCEPT !.screen = ResizeScreen(V.screen, rows, cols)],
                            rows, cols)
        pos == ResizedCursor(V.vt_pos, rows, cols)
        V2 == [V1 EXCEPT !.vt_pos = pos]
    IN IF pos # V.vt_pos THEN handle_movecursor(V2, pos) ELSE V2

\* Mutant: only a missing vterm makes term_update_window() fail.
NoTerminalRunning_without_vterm == ~tl_vterm

\* term_update_window(): "Returns FAIL when there is no terminal running in
\* this window" (the session exists, so term is not NULL).
NoTerminalRunning == ~tl_vterm \/ tl_terminal_mode

\* term_update_window(wp) up to its drawing loop, when it does not fail: the
\* size of the vterm is adjusted when it differs from the window's, the
\* size is reported to the job, and "The cursor may have been moved when
\* resizing": position_cursor(wp, &pos) for the window being updated.
UpdateWindowIn(V, wp) ==
    LET sz == NegotiatedSize(V, wp)
        V1 == IF NeedsResize(V, wp)
              THEN [vterm_set_size(V, sz.rows, sz.cols)
                       EXCEPT !.winsize_report = << sz.rows, sz.cols >>]
              ELSE V
    IN PositionCursor(V1, wp, V1.vt_pos)

\* update_screen(0) from window i on: every window on the buffer that is
\* marked for redraw is updated with term_update_window() and its mark is
\* cleared; a window the resize callback marks again after its turn stays
\* marked.
RECURSIVE UpdateScreenFrom(_, _)
UpdateScreenFrom(V, i) ==
    IF i > Cardinality(WinIds) THEN V
    ELSE IF V.wins[i] # NoWin /\ V.w_redr_type[i]
    THEN LET V1 == IF NoTerminalRunning THEN V ELSE UpdateWindowIn(V, i)
         IN UpdateScreenFrom([V1 EXCEPT !.w_redr_type[i] = FALSE], i + 1)
    ELSE UpdateScreenFrom(V, i + 1)

update_screen(V) == UpdateScreenFrom(V, 1)

\* terminal_loop: "while (curwin->w_redr_type != 0) update_screen(0);"
RECURSIVE RedrawLoop(_)
RedrawLoop(V) ==
    IF curwin \in Showing(V.wins) /\ V.w_redr_type[curwin]
    THEN RedrawLoop(update_screen(V))
    ELSE V

\* The inner loop of term_update_window() for engine row r from pos.col = col
\* on: the host columns it writes.  A cell the engine does not return is
\* zeroed, NUL is drawn as a space, and after a cell of width 2 one more
\* column is written with NUL and pos.col goes on by two.
RECURSIVE DrawRow(_, _, _, _)
DrawRow(scr, r, col, max_col) ==
    IF col >= max_col THEN << >>
    ELSE LET g == vterm_screen_get_cell(scr, r, col + 1)
             cell == IF g.ok THEN g.cell ELSE [chars |-> NUL, width |-> 0]
             ch == IF cell.chars = NUL THEN SPACE ELSE cell.chars
         IN IF cell.width = 2
            THEN << ch, NUL >> \o DrawRow(scr, r, col + 2, max_col)
            ELSE << ch >> \o DrawRow(scr, r, col + 1, max_col)

\* The rows term_update_window() hands to screen_line() for window win: the
\* engine's cells below tl_rows and left of MIN(w_width, tl_cols), an empty
\* cell drawn as a space, and nothing for the window rows below the grid.
DrawnRows(scr, win, rows, cols) ==
    [r \in 1..win.h |->
        IF r <= rows
        THEN DrawRow(scr, r, 0, IF win.w < cols THEN win.w ELSE cols)
        ELSE << >>]

\* What the call leaves in upd_call when it is recorded.
NoteUpdate(track, wp, ret, lines) ==
    IF track
    THEN upd_call' = [wp |-> wp, ret |-> ret, lines |-> lines, flip |-> ~upd_call.flip]
    ELSE UNCHANGED upd_call

\* term_update_window(wp) for a window showing the buffer.
UpdateWindow(track) ==
    /\ ~fault
    /\ \E wp \in Showing(wins) :
         IF NoTerminalRunning
         THEN SetView(View) /\ NoteUpdate(track, wp, "FAIL", << >>)
         ELSE LET V == UpdateWindowIn(View, wp)
              IN /\ SetView(V)
                 /\ NoteUpdate(track, wp, "OK",
                               DrawnRows(V.screen, V.wins[wp], V.tl_rows, V.tl_cols))
    /\ chan_log' = NoSend
    /\ UNCHANGED << tl_vterm, jobVars, tl_terminal_mode, tl_channel_closed,
                    tl_rows_fixed, tl_cols_fixed, regVars, colorVars, moveVars, wr_msg,
                    vt_calls, attr_call, key_typed, line_call, tl_title, tl_status_text, dirtyVars,
                    storeVars, pc, fault, flushHist, curwin >>

term_update_window == UpdateWindow(FALSE)

\* The same call with its result and the rows it draws recorded.
term_update_window_drawing == UpdateWindow(TRUE)

\* ----------------------------------------------------------- job output
\* write_to_term() returns at once when the vterm is gone; else
\* term_write_job_output() hands the chunk to the engine, which changes its
\* screen and runs the callbacks, and the function ends with
\* update_screen(0), which redraws the windows marked for redraw (every window
\* on the buffer after a damage, moverect or resize callback), and with
\* update_cursor(), which changes no field.  The Engine actions below are
\* what vterm_input_write() and vterm_screen_flush_damage() do for a chunk;
\* redraw tells whether update_screen(0) follows.  wr_msg and vt_calls
\* record the chunk only in the specification of term_write_job_output().

\* What no reaction of the engine to job output changes.
engineFrame == << tl_vterm, jobVars, tl_terminal_mode, tl_channel_closed, tl_rows_fixed,
                 tl_cols_fixed, regVars, colorVars, attr_call, key_typed, upd_call,
                 line_call, curwin, pc, flushHist >>

\* The engine puts character ch in cell (r, c): the damage callback reports
\* row r.
EnginePut(track, r, c, ch, redraw) ==
    LET V0 == [View EXCEPT !.screen = [screen EXCEPT ![r][c] = Cell(ch)],
                           !.w_redr_type = redraw_buf_later(wins, w_redr_type)]
    IN /\ SetView(IF redraw THEN update_screen(V0) ELSE V0)
       /\ handle_damage(r - 1, r)
       /\ NoteDamage(track, r - 1, r)
       /\ UNCHANGED << engineFrame, moveVars, tl_title, tl_status_text, storeVars, fault >>

\* write_to_term() with a chunk that makes the engine put character ch in
\* cell (r, c).
JobOutputPut(track) ==
    /\ ~fault /\ (ch_open \/ ~tl_vterm)
    /\ IF NotWriting THEN UNCHANGED vars
       ELSE /\ \E r \in 1..Len(screen), ch \in CellChars :
                 \E c \in 1..Len(screen[r]) : EnginePut(track, r, c, ch, TRUE)
            /\ chan_log' = NoSend
            /\ UNCHANGED << wr_msg, vt_calls >>

\* The engine's row after a character of width 2 was put in cells c and
\* c + 1: the second cell is the continuation; a wide character that lost a
\* half to it is gone.
WidePut(row, c) ==
    [k \in 1..Len(row) |->
        IF k = c THEN WideCell
        ELSE IF k = c + 1 THEN WideTail
        ELSE IF k = c - 1 /\ row[k].width = 2 THEN EmptyCell
        ELSE IF k = c + 2 /\ row[k] = WideTail THEN EmptyCell
        ELSE row[k]]

\* The engine puts a character of width 2 in cells (r, c) and (r, c + 1):
\* the damage callback reports row r.
EngineWide(r, c, redraw) ==
    LET V0 == [View EXCEPT !.screen = [screen EXCEPT ![r] = WidePut(screen[r], c)],
                           !.w_redr_type = redraw_buf_later(wins, w_redr_type)]
    IN /\ SetView(IF redraw THEN update_screen(V0) ELSE V0)
       /\ handle_damage(r - 1, r)
       /\ NoteDamage(FALSE, r - 1, r)
       /\ UNCHANGED << engineFrame, moveVars, tl_title, tl_status_text, storeVars, fault >>

\* write_to_term() with a chunk that makes the engine put a character of
\* width 2 in cells (r, c) and (r, c + 1).
JobOutputWide ==
    /\ ~fault /\ (ch_open \/ ~tl_vterm)
    /\ IF NotWriting THEN UNCHANGED vars
       ELSE /\ \E r \in 1..Len(screen) :
                 \E c \in 1..(Len(screen[r]) - 1) : EngineWide(r, c, TRUE)
            /\ chan_log' = NoSend
            /\ UNCHANGED << wr_msg, vt_calls >>

\* The engine scrolls the screen up by one row: it calls sb_pushline for
\* the top row, moverect for the rows moved (handle_moverect changes no
\* field) and damage for the row scrolled in.
EngineScroll(allocs, track, redraw) ==
    /\ Len(screen) >= 1
    /\ \E al \in allocs :
         LET res == handle_pushline(tl_scrollback, tl_scrollback_scrolled,
                                    buf_lines, screen[1], al)
             V0 == [View EXCEPT
                      !.screen = Tail(screen) \o << BlankRow(Len(screen[1])) >>,
                      !.w_redr_type = redraw_buf_later(wins, w_redr_type)]
         IN /\ tl_scrollback' = res.sb
            /\ tl_scrollback_scrolled' = res.scrolled
            /\ buf_lines' = res.lines
            /\ fault' = res.fault
            /\ SetView(IF redraw /\ ~res.fault THEN update_screen(V0) ELSE V0)
    /\ nPush' = nPush + 1
    /\ handle_damage(Len(screen) - 1, Len(screen))
    /\ NoteDamage(track, Len(screen) - 1, Len(screen))
    /\ UNCHANGED << engineFrame, moveVars, tl_title, tl_status_text >>

\* write_to_term() with a chunk that scrolls the screen up by one row.
JobOutputScroll(allocs, track) ==
    /\ ~fault /\ (ch_open \/ ~tl_vterm)
    /\ nPush < MaxScrolled
    /\ IF NotWriting THEN UNCHANGED vars
       ELSE /\ EngineScroll(allocs, track, TRUE)
            /\ chan_log' = NoSend
            /\ UNCHANGED << wr_msg, vt_calls >>

\* The engine sets the title: it calls settermprop.
EngineTitle(text, redraw) ==
    /\ handle_settermprop_title(text)
    /\ SetView(IF redraw THEN update_screen(View) ELSE View)
    /\ UNCHANGED << engineFrame, moveVars, dirtyVars, storeVars, fault >>

\* write_to_term() with a chunk that sets the title.
JobOutputTitle ==
    /\ ~fault /\ (ch_open \/ ~tl_vterm)
    /\ IF NotWriting THEN UNCHANGED vars
       ELSE /\ \E text \in Titles : EngineTitle(text, TRUE)
            /\ chan_log' = NoSend
            /\ UNCHANGED << wr_msg, vt_calls >>

\* VTermRect: rows start_row .. end_row - 1, counted from 0.
Rect(start_row, end_row) == [start_row |-> start_row, end_row |-> end_row]

\* Mutant: the callback makes the destination the dirty range.
handle_moverect_dest_only(dirty_start, dirty_end, dest, src) ==
    << dest.start_row, dest.end_row >>

\* handle_moverect(dest, src): "TODO"; it asks for a redraw and leaves
\* tl_dirty_row_start and tl_dirty_row_end as they are.
handle_moverect(dirty_start, dirty_end, dest, src) == << dirty_start, dirty_end >>

\* The screen after the engine inserted a blank row at row + 1 ("IL") or
\* deleted row + 1 ("DL"); the rows below move down or up.
MovedScreen(scr, row, kind) ==
    [i \in 1..Len(scr) |->
        IF i <= row THEN scr[i]
        ELSE IF kind = "IL"
        THEN (IF i = row + 1 THEN BlankRow(Len(scr[i])) ELSE scr[i - 1])
        ELSE (IF i = Len(scr) THEN BlankRow(Len(scr[i])) ELSE scr[i + 1])]

\* The engine inserts or deletes a line at row (from 0): it calls moverect
\* for the rows it moved, then damage for the row it blanked.
EngineMove(row, kind, redraw) ==
    LET R == Len(screen)
        dest == IF kind = "IL" THEN Rect(row + 1, R) ELSE Rect(row, R - 1)
        src == IF kind = "IL" THEN Rect(row, R - 1) ELSE Rect(row + 1, R)
        blank == IF kind = "IL" THEN Rect(row, row + 1) ELSE Rect(R - 1, R)
        rng == handle_moverect(tl_dirty_row_start, tl_dirty_row_end, dest, src)
        V0 == [View EXCEPT !.screen = MovedScreen(screen, row, kind),
                           !.w_redr_type = redraw_buf_later(wins, w_redr_type)]
    IN /\ SetView(IF redraw THEN update_screen(V0) ELSE V0)
       /\ tl_dirty_row_start' = MIN(rng[1], blank.start_row)
       /\ tl_dirty_row_end' = MAX(rng[2], blank.end_row)
       /\ mv_rects' = << dest, src >>
       /\ mv_flip' = ~mv_flip
       /\ UNCHANGED << engineFrame, tl_title, tl_status_text, dmg, storeVars, fault >>

\* write_to_term() with a chunk that inserts or deletes a line at row.
JobOutputMove ==
    /\ ~fault /\ (ch_open \/ ~tl_vterm)
    /\ IF NotWriting THEN UNCHANGED vars
       ELSE /\ \E row \in 0..(Len(screen) - 2), kind \in {"IL", "DL"} :
                 EngineMove(row, kind, TRUE)
            /\ chan_log' = NoSend
            /\ UNCHANGED << wr_msg, vt_calls >>

\* The engine moves its cursor to pos: it calls movecursor.
EngineCursor(pos, redraw) ==
    LET V0 == handle_movecursor([View EXCEPT !.vt_pos = pos], pos)
    IN /\ SetView(IF redraw THEN update_screen(V0) ELSE V0)
       /\ UNCHANGED << engineFrame, moveVars, tl_title, tl_status_text, dirtyVars,
                       storeVars, fault >>

\* write_to_term() with a chunk that moves the engine's cursor to another
\* cell of its screen.
JobOutputCursor ==
    /\ ~fault /\ (ch_open \/ ~tl_vterm)
    /\ IF NotWriting THEN UNCHANGED vars
       ELSE /\ \E r \in 1..Len(screen) :
                 \E c \in 1..Len(screen[r]) :
                   /\ [row |-> r - 1, col |-> c - 1] # vt_pos
                   /\ EngineCursor([row |-> r - 1, col |-> c - 1], TRUE)
            /\ chan_log' = NoSend
            /\ UNCHANGED << wr_msg, vt_calls >>

\* ----------------------------------------------------- bytes of job output
\* utf8len_tab[]: the length of a UTF-8 sequence by its first byte.
utf8len_tab(b) ==
    IF b < 192 THEN 1
    ELSE IF b < 224 THEN 2
    ELSE IF b < 240 THEN 3
    ELSE IF b < 248 THEN 4
    ELSE IF b < 252 THEN 5
    ELSE IF b < 254 THEN 6
    ELSE 1

\* utf_ptr2len_len(msg + p, size): 1 for an ASCII or illegal byte and for an
\* illegal sequence; the length of the sequence otherwise, which is more
\* than size for an incomplete sequence.
utf_ptr2len_len(msg, p, size) ==
    LET len == utf8len_tab(msg[p + 1])
        m == MIN(len, size)
    IN IF len = 1 THEN 1
       ELSE IF \E i \in 1..(m - 1) : msg[p + i + 1] < 128 \/ msg[p + i + 1] >= 192 THEN 1
       ELSE len

\* "for (p = msg + done; p < msg + len; )": the offset at which the scan for
\* NL that starts at offset p stops.
RECURSIVE ScanToNL(_, _)
ScanToNL(msg, p) ==
    IF p >= Len(msg) THEN p
    ELSE IF msg[p + 1] = NL THEN p
    ELSE ScanToNL(msg, p + utf_ptr2len_len(msg, p, Len(msg) - p))

\* The bytes job output is made of, the chunks a call gets and the bytes
\* that may lie behind the end of a chunk.
Bytes == {NL, CAR, CharA, Utf8Lead, Utf8Trail}
Chunks == UNION {[1..n -> Bytes] : n \in 0..MaxChunk}
BytesBehind == {NUL, CharA}

VtWrite(data) == [op |-> "write", data |-> data]
VtFlush == [op |-> "flush", data |-> << >>]

\* The "for (done = 0; done < len; done += len_now)" loop from offset done
\* on: the vterm_input_write() calls it adds to calls.  A byte read at or
\* behind offset len is not a byte of the chunk: it is behind.
RECURSIVE WriteLoop(_, _, _, _)
WriteLoop(msg, done, calls, behind) ==
    IF done >= Len(msg) THEN calls
    ELSE LET p == ScanToNL(msg, done)
             len_now == p - done
             data == [k \in 1..len_now |->
                         IF done + k <= Len(msg) THEN msg[done + k] ELSE behind]
             nl == p < Len(msg) /\ msg[p + 1] = NL
             calls1 == Append(calls, VtWrite(data))
         IN IF nl
            THEN WriteLoop(msg, done + len_now + 1, Append(calls1, VtWrite(<< CAR, NL >>)),
                           behind)
            ELSE WriteLoop(msg, done + len_now, calls1, behind)

\* The engine's reaction e to the chunk, with the callbacks it invokes.
EngineReaction(e) ==
    IF e = "put"
    THEN \E r \in 1..Len(screen), ch \in CellChars :
           \E c \in 1..Len(screen[r]) : EnginePut(FALSE, r, c, ch, FALSE)
    ELSE IF e = "wide"
    THEN \E r \in 1..Len(screen) :
           \E c \in 1..(Len(screen[r]) - 1) : EngineWide(r, c, FALSE)
    ELSE IF e = "scroll"
    THEN nPush < MaxScrolled /\ EngineScroll(AllocOk, FALSE, FALSE)
    ELSE IF e = "title"
    THEN \E text \in Titles : EngineTitle(text, FALSE)
    ELSE IF e = "move"
    THEN \E row \in 0..(Len(screen) - 2), kind \in {"IL", "DL"} :
           EngineMove(row, kind, FALSE)
    ELSE IF e = "cursor"
    THEN \E r \in 1..Len(screen) :
           \E c \in 1..Len(screen[r]) :
             /\ [row |-> r - 1, col |-> c - 1] # vt_pos
             /\ EngineCursor([row |-> r - 1, col |-> c - 1], FALSE)
    ELSE /\ SetView(View)
         /\ UNCHANGED << engineFrame, moveVars, tl_title, tl_status_text, dirtyVars,
                         storeVars, fault >>

\* term_write_job_output(term, msg, len): the chunk goes to
\* vterm_input_write() piece by piece, then vterm_screen_flush_damage()
\* invokes the callbacks.  What the engine does with a chunk lies in the
\* state of its parser, which keeps the unfinished sequences of earlier
\* chunks: any of the reactions can follow a chunk that has a byte, and none
\* follows an empty one.
term_write_job_output ==
    /\ ~fault /\ tl_vterm /\ ch_open
    /\ \E msg \in Chunks :
         /\ wr_msg' = msg
         /\ \E calls \in {WriteLoop(msg, 0, << >>, behind) : behind \in BytesBehind} :
              vt_calls' = Append(calls, VtFlush)
         /\ \E e \in IF msg = << >> THEN {"none"}
                   ELSE {"none", "put", "wide", "scroll", "title", "move", "cursor"} :
              EngineReaction(e)
    /\ chan_log' = NoSend

\* ------------------------------------------------------------ mode changes
\* Mutant: the vterm is freed before the screen is flushed.
cleanup_vterm_free_first(sb, lines, allocs) ==
    /\ \E al \in [1..tl_rows -> allocs] :
         LET res == move_terminal_to_buffer(sb, lines, << >>, tl_rows, tl_cols, al)
         IN /\ tl_scrollback' = res.sb
            /\ buf_lines' = res.lines
            /\ flushedN' = Len(res.sb) - Len(sb)
    /\ flushBase' = Len(sb)
    /\ flushLines' = ml_line_count(lines)
    /\ tl_vterm' = FALSE
    /\ screen' = << >>
    /\ set_terminal_mode(FALSE)

\* Mutant: the vterm is freed and the mode is left as it is.
cleanup_vterm_keeps_mode(sb, lines, allocs) ==
    /\ \E al \in [1..tl_rows -> allocs] :
         LET res == move_terminal_to_buffer(sb, lines, screen, tl_rows, tl_cols, al)
         IN /\ tl_scrollback' = res.sb
            /\ buf_lines' = res.lines
            /\ flushedN' = Len(res.sb) - Len(sb)
    /\ flushBase' = Len(sb)
    /\ flushLines' = ml_line_count(lines)
    /\ tl_vterm' = FALSE
    /\ screen' = << >>
    /\ tl_status_text' = "NULL"
    /\ UNCHANGED tl_terminal_mode

\* cleanup_vterm(term), starting from store sb and buffer lines:
\* move_terminal_to_buffer, term_free_vterm, set_terminal_mode(FALSE).
cleanup_vterm(sb, lines, allocs) ==
    /\ \E al \in [1..tl_rows -> allocs] :
         LET res == move_terminal_to_buffer(sb, lines, screen, tl_rows, tl_cols, al)
         IN /\ tl_scrollback' = res.sb
            /\ buf_lines' = res.lines
            /\ flushedN' = Len(res.sb) - Len(sb)
    /\ flushBase' = Len(sb)
    /\ flushLines' = ml_line_count(lines)
    /\ tl_vterm' = FALSE
    /\ screen' = << >>
    /\ set_terminal_mode(FALSE)

\* term_enter_terminal_mode(): flush the screen, then Terminal-Normal mode.
term_enter_terminal_mode(allocs) ==
    /\ \E al \in [1..tl_rows -> allocs] :
         LET res == move_terminal_to_buffer(tl_scrollback, buf_lines, screen,
                                            tl_rows, tl_cols, al)
         IN /\ tl_scrollback' = res.sb
            /\ buf_lines' = res.lines
            /\ flushedN' = Len(res.sb) - Len(tl_scrollback)
    /\ flushBase' = Len(tl_scrollback)
    /\ flushLines' = ml_line_count(buf_lines)
    /\ set_terminal_mode(TRUE)

\* term_leave_terminal_mode(): called by the host's Normal-mode commands
\* when term_in_terminal_mode().
term_leave_terminal_mode(allocs) ==
    /\ ~fault /\ pc = "main"
    /\ term_in_terminal_mode
    /\ LET rb == RollbackLoop(tl_scrollback, buf_lines, tl_scrollback_scrolled)
       IN IF rb.fault
          THEN /\ fault' = TRUE
               /\ buf_lines' = rb.lines
               /\ tl_scrollback' = rb.sb
               /\ UNCHANGED << tl_vterm, screen, tl_terminal_mode, tl_status_text,
                               flushHist, w_redr_type >>
          ELSE /\ fault' = FALSE
               /\ w_redr_type' = redraw_buf_later(wins, w_redr_type)
               /\ IF tl_channel_closed
                  THEN cleanup_vterm(rb.sb, rb.lines, allocs)
                  ELSE /\ tl_scrollback' = rb.sb
                       /\ buf_lines' = rb.lines
                       /\ set_terminal_mode(FALSE)
                       /\ flushBase' = -1
                       /\ flushedN' = 0
                       /\ flushLines' = 0
                       /\ UNCHANGED << tl_vterm, screen >>
    /\ chan_log' = NoSend
    /\ winsize_report' = << >>
    /\ UNCHANGED << jobVars, tl_channel_closed, tl_rows, tl_cols, tl_rows_fixed,
                    tl_cols_fixed, otherVars, wins, curwin, tl_title, dirtyVars,
                    tl_scrollback_scrolled, nPush, pc >>

\* term_change_in_curbuf(): the buffer is going to be changed; for a finished
\* terminal the scrollback, which holds the highlighting, is freed.
term_change_in_curbuf ==
    /\ ~fault
    /\ tl_scrollback' = IF ~tl_vterm /\ Len(tl_scrollback) > 0 THEN << >> ELSE tl_scrollback
    /\ w_redr_type' = IF ~tl_vterm /\ Len(tl_scrollback) > 0
                      THEN redraw_buf_later(wins, w_redr_type)
                      ELSE w_redr_type
    /\ chan_log' = NoSend
    /\ winsize_report' = << >>
    /\ UNCHANGED << tl_vterm, jobVars, tl_terminal_mode, tl_channel_closed, tl_rows,
                    tl_cols, tl_rows_fixed, tl_cols_fixed, otherVars, wins, curwin, tl_title,
                    tl_status_text, dirtyVars, tl_scrollback_scrolled, buf_lines, nPush,
                    screen, pc, fault, flushHist >>

\* term_show_buffer(buf): the buffer, not the vterm, is what the window shows.
term_show_buffer == ~tl_vterm \/ tl_terminal_mode

\* Mutant: the column test lets col = sb_cols through.
GetAttr_past_width(sb, lnum, col) ==
    IF lnum > Len(sb) THEN [ret |-> << >>, read |-> {}, outside |-> FALSE]
    ELSE IF col > sb[lnum].sb_cols THEN [ret |-> << >>, read |-> {}, outside |-> FALSE]
    ELSE IF col >= Len(sb[lnum].sb_cells)
    THEN [ret |-> << >>, read |-> {<< lnum - 1, col >>}, outside |-> TRUE]
    ELSE [ret |-> << sb[lnum].sb_cells[col + 1] >>, read |-> {<< lnum - 1, col >>},
          outside |-> FALSE]

\* The body of term_get_attr(buf, lnum, col) on store sb: what it returns
\* (<< >> for 0, << cell >> for cell2attr(cell)), the cells <<entry, column>>
\* it reads and whether one of them lies outside the entry's cell array.
GetAttr(sb, lnum, col) ==
    IF lnum > Len(sb) THEN [ret |-> << >>, read |-> {}, outside |-> FALSE]
    ELSE IF col >= sb[lnum].sb_cols THEN [ret |-> << >>, read |-> {}, outside |-> FALSE]
    ELSE IF col >= Len(sb[lnum].sb_cells)
    THEN [ret |-> << >>, read |-> {<< lnum - 1, col >>}, outside |-> TRUE]
    ELSE [ret |-> << sb[lnum].sb_cells[col + 1] >>, read |-> {<< lnum - 1, col >>},
          outside |-> FALSE]

\* term_get_attr(buf, lnum, col), called for the text of a window that shows
\* the buffer; a read outside a cell array is undefined behaviour.
term_get_attr ==
    /\ ~fault
    /\ term_show_buffer
    /\ \E lnum \in 1..(Len(tl_scrollback) + 1), col \in 0..tl_cols :
         LET res == GetAttr(tl_scrollback, lnum, col)
         IN /\ attr_call' = [lnum |-> lnum, col |-> col, ret |-> res.ret, read |-> res.read]
            /\ fault' = res.outside
    /\ chan_log' = NoSend
    /\ winsize_report' = << >>
    /\ UNCHANGED << tl_vterm, jobVars, tl_terminal_mode, tl_channel_closed, tl_rows, tl_cols,
                    tl_rows_fixed, tl_cols_fixed, regVars, colorVars, moveVars, cursorVars,
                    wr_msg, vt_calls, key_typed, upd_call, line_call, winVars, tl_title, tl_status_text,
                    dirtyVars, storeVars,
                    screen, pc, flushHist >>

\* ------------------------------------------------- term_getline, term_scrape
\* Column of the last cell of a screen row that holds a character, 0 if none.
RECURSIVE LastCharCol(_, _)
LastCharCol(cells, n) ==
    IF n = 0 THEN 0
    ELSE IF cells[n].chars # NUL /\ cells[n] # WideTail THEN n
    ELSE LastCharCol(cells, n - 1)

RECURSIVE ScreenTextFrom(_, _, _)
ScreenTextFrom(cells, c, last) ==
    IF c > last THEN << >>
    ELSE (IF cells[c] = WideTail THEN << >>
          ELSE << IF cells[c].chars = NUL THEN SPACE ELSE cells[c].chars >>)
         \o ScreenTextFrom(cells, c + 1, last)

\* vterm_screen_get_text() for the rectangle of one screen row, columns 0 to
\* cols: the characters of the row, an empty cell before a later character
\* as a space, the cells after the last character left out.
vterm_screen_get_text(scr, row, cols) ==
    IF row < 0 \/ row >= Len(scr) THEN << >>
    ELSE LET cells == scr[row + 1]
         IN ScreenTextFrom(cells, 1, LastCharCol(cells, MIN(cols, Len(cells))))

\* Mutant: the buffer line is looked up without the scrolled lines.
GetlineLnum_from_top(row, scrolled) == row + 1

\* f_term_getline(): "lnum = row + term->tl_scrollback_scrolled + 1"
GetlineLnum(row, scrolled) == row + scrolled + 1

\* f_term_scrape(): "lnum = pos.row + term->tl_scrollback_scrolled", an index
\* into tl_scrollback.ga_data.
ScrapeLnum(row, scrolled) == row + scrolled

\* What f_term_getline() returns for row: found is FALSE when the string is
\* left NULL.
GetLine(vterm, scr, lines, scrolled, cols, row) ==
    IF ~vterm
    THEN LET lnum == GetlineLnum(row, scrolled)
         IN IF lnum > 0 /\ lnum <= ml_line_count(lines)
            THEN [found |-> TRUE, text |-> lines[lnum]]
            ELSE [found |-> FALSE, text |-> << >>]
    ELSE [found |-> TRUE, text |-> vterm_screen_get_text(scr, row, cols)]

\* The cells f_term_scrape() lists for row, from column col on: the cells of
\* the vterm's screen, or of the stored line once the vterm is gone.
RECURSIVE Scrape(_, _, _, _, _, _, _)
Scrape(vterm, scr, sb, scrolled, cols, row, col) ==
    IF col >= cols THEN << >>
    ELSE IF ~vterm
    THEN LET lnum == ScrapeLnum(row, scrolled)
         IN IF lnum < 0 \/ lnum >= Len(sb) THEN << >>
            ELSE LET line == sb[lnum + 1]
                 IN IF col >= line.sb_cols \/ LineUnreadable(line) THEN << >>
                    ELSE LET cell == line.sb_cells[col + 1]
                         IN << cell >>
                              \o Scrape(vterm, scr, sb, scrolled, cols, row, col + cell.width)
    ELSE LET got == vterm_screen_get_cell(scr, row + 1, col + 1)
         IN IF ~got.ok THEN << >>
            ELSE << got.cell >>
                   \o Scrape(vterm, scr, sb, scrolled, cols, row, col + got.cell.width)

\* The stored line f_term_scrape() reads has sb_cols > 0 and no cell array.
ScrapeReadsNull(sb, scrolled, cols, row) ==
    LET lnum == ScrapeLnum(row, scrolled)
    IN cols > 0 /\ lnum >= 0 /\ lnum < Len(sb) /\ LineUnreadable(sb[lnum + 1])

\* The row arguments of term_getline() and term_scrape(): the rows of the
\* screen, one above and one below.
RowArgs == (-1)..MaxRows

lineFrame ==
    << tl_vterm, jobVars, tl_terminal_mode, tl_channel_closed, tl_rows, tl_cols,
       tl_rows_fixed, tl_cols_fixed, regVars, colorVars, moveVars, cursorVars,
       wr_msg, vt_calls, attr_call, key_typed, upd_call, winVars, tl_title, tl_status_text,
       dirtyVars, storeVars, screen, pc, flushHist >>

\* term_getline(buf, row); with a vterm the row is one of its screen.
f_term_getline ==
    /\ ~fault
    /\ \E row \in RowArgs :
         /\ tl_vterm => (row >= 0 /\ row < tl_rows)
         /\ LET res == GetLine(tl_vterm, screen, buf_lines, tl_scrollback_scrolled,
                               tl_cols, row)
            IN line_call' = [fn |-> "getline", row |-> row, found |-> res.found,
                             text |-> res.text, cells |-> << >>, flip |-> ~line_call.flip]
    /\ chan_log' = NoSend
    /\ winsize_report' = << >>
    /\ UNCHANGED << lineFrame, fault >>

\* term_scrape(buf, row)
f_term_scrape ==
    /\ ~fault
    /\ \E row \in RowArgs :
         /\ line_call' = [fn |-> "scrape", row |-> row, found |-> TRUE, text |-> << >>,
                          cells |-> Scrape(tl_vterm, screen, tl_scrollback,
                                           tl_scrollback_scrolled, tl_cols, row, 0),
                          flip |-> ~line_call.flip]
         /\ fault' = (~tl_vterm /\ ScrapeReadsNull(tl_scrollback, tl_scrollback_scrolled,
                                                  tl_cols, row))
    /\ chan_log' = NoSend
    /\ winsize_report' = << >>
    /\ UNCHANGED lineFrame

\* Mutant: the channel closing finishes the session in every mode.
ClosedCleansUp_always == TRUE

\* Whether term_channel_closed() finishes the session at once:
\* "Unless in Terminal-Normal mode: clear the vterm."
ClosedCleansUp == ~tl_terminal_mode

\* term_channel_closed(ch) for the channel of this session's job.
term_channel_closed(allocs) ==
    /\ ~fault /\ ch_open
    /\ ch_open' = FALSE
    /\ tl_channel_closed' = TRUE
    /\ tl_title' = "NULL"
    /\ IF ClosedCleansUp
       THEN cleanup_vterm(tl_scrollback, buf_lines, allocs)
       ELSE /\ tl_status_text' = "NULL"
            /\ UNCHANGED << tl_vterm, screen, tl_terminal_mode, tl_scrollback, buf_lines,
                            flushHist >>
    /\ w_redr_type' = redraw_buf_later(wins, w_redr_type)
    /\ chan_log' = NoSend
    /\ winsize_report' = << >>
    /\ UNCHANGED << tl_job, tl_rows, tl_cols, tl_rows_fixed, tl_cols_fixed, otherVars, wins,
                    curwin, dirtyVars, tl_scrollback_scrolled, nPush, pc, fault >>

\* Mutant: the end of the job frees the vterm.
term_job_ended_frees ==
    /\ ~fault /\ tl_job = "started"
    /\ tl_job' = "ended"
    /\ tl_title' = "NULL"
    /\ tl_status_text' = "NULL"
    /\ tl_vterm' = FALSE
    /\ w_redr_type' = redraw_buf_later(wins, w_redr_type)
    /\ chan_log' = NoSend
    /\ winsize_report' = << >>
    /\ UNCHANGED << ch_open, tl_terminal_mode, tl_channel_closed, tl_rows, tl_cols,
                    tl_rows_fixed, tl_cols_fixed, otherVars, wins, curwin, dirtyVars, storeVars, screen,
                    pc, fault, flushHist >>

\* Mutant: the end of the job counts as the channel being closed.
term_job_ended_marks_closed ==
    /\ ~fault /\ tl_job = "started"
    /\ tl_job' = "ended"
    /\ tl_title' = "NULL"
    /\ tl_status_text' = "NULL"
    /\ tl_channel_closed' = TRUE
    /\ w_redr_type' = redraw_buf_later(wins, w_redr_type)
    /\ chan_log' = NoSend
    /\ winsize_report' = << >>
    /\ UNCHANGED << tl_vterm, ch_open, tl_terminal_mode, tl_rows, tl_cols,
                    tl_rows_fixed, tl_cols_fixed, otherVars, wins, curwin, dirtyVars, storeVars, screen,
                    pc, fault, flushHist >>

\* term_job_ended(job): the job's status became "ended".  The engine is
\* kept: "there might still be pending output in the channel".
term_job_ended ==
    /\ ~fault /\ tl_job = "started"
    /\ tl_job' = "ended"
    /\ tl_title' = "NULL"
    /\ tl_status_text' = "NULL"
    /\ w_redr_type' = redraw_buf_later(wins, w_redr_type)
    /\ chan_log' = NoSend
    /\ winsize_report' = << >>
    /\ UNCHANGED << tl_vterm, ch_open, tl_terminal_mode, tl_channel_closed, tl_rows, tl_cols,
                    tl_rows_fixed, tl_cols_fixed, otherVars, wins, curwin, dirtyVars, storeVars, screen,
                    pc, fault, flushHist >>

\* term_get_status_text(term): fill the cache when it is empty.
term_get_status_text ==
    /\ ~fault /\ tl_status_text = "NULL"
    /\ tl_status_text' = StatusTextOf(tl_terminal_mode, tl_title, term_job_running)
    /\ chan_log' = NoSend
    /\ winsize_report' = << >>
    /\ UNCHANGED << tl_vterm, jobVars, tl_terminal_mode, tl_channel_closed, tl_rows,
                    tl_cols, tl_rows_fixed, tl_cols_fixed, otherVars, winVars, tl_title, dirtyVars,
                    storeVars, screen, pc, fault, flushHist >>

\* ------------------------------------------------------------ key input
\* Everything but pc, chan_log and the fields the mode switch writes.
keyFrame == << tl_vterm, jobVars, tl_channel_closed, tl_rows_fixed,
               tl_cols_fixed, regVars, colorVars, moveVars, tl_title, dirtyVars,
               tl_scrollback_scrolled, nPush, fault, curwin >>
modeFrame == << tl_terminal_mode, tl_status_text, tl_scrollback, buf_lines, flushHist >>

\* send_keys_to_term(term, c, typed): the channel_send() it makes.
send_keys_to_term(c) ==
    IF c \in NormalModeKeys THEN NoSend
    ELSE IF term_convert_key(c) > 0 THEN channel_send("keys", term_convert_key(c))
    ELSE NoSend

\* Mutant: terminal_loop does not test for the job having finished.
JobFinishedWhileWaiting_never == FALSE

\* The test terminal_loop makes after each term_vgetc():
\* "job finished while waiting for a character".
JobFinishedWhileWaiting == ~tl_vterm \/ ~term_job_running

\* terminal_loop before it waits in term_vgetc() again: "while
\* (curwin->w_redr_type != 0) update_screen(0);".  Nothing is redrawn when
\* the loop is left or waits for the key after CTRL-W.
BeforeNextKey == SetView(IF pc' = "vgetc" THEN RedrawLoop(View) ELSE View)

\* The host's main loop calls terminal_loop() when term_use_loop(): the
\* cursor of the current window is put at tl_cursor_pos, then the loop
\* redraws and waits for a key.
terminal_loop_enter ==
    /\ ~fault /\ pc = "main"
    /\ term_use_loop
    /\ curwin \in Showing(wins)
    /\ pc' = "vgetc"
    /\ chan_log' = NoSend
    /\ SetView(RedrawLoop(PositionCursor(View, curwin, tl_cursor_pos)))
    /\ UNCHANGED << keyFrame, writeVars, modeFrame >>

\* terminal_loop: the first term_vgetc() returned c.
terminal_loop_key ==
    /\ ~fault /\ pc = "vgetc"
    /\ \E c \in LoopKeys :
         IF JobFinishedWhileWaiting
         THEN pc' = "main" /\ chan_log' = NoSend
         ELSE IF c = "Ctrl_W"
         THEN pc' = "vgetc_ctrlw" /\ chan_log' = NoSend
         ELSE IF c \in NormalModeKeys
         THEN pc' = "main" /\ chan_log' = NoSend
         ELSE pc' = "vgetc" /\ chan_log' = send_keys_to_term(c)
    /\ BeforeNextKey
    /\ UNCHANGED << keyFrame, writeVars, modeFrame >>

\* terminal_loop: the first term_vgetc() returned the special key c, with the
\* mouse outside the current window (or dragged from outside) or inside it.
terminal_loop_special_key ==
    /\ ~fault /\ pc = "vgetc"
    /\ \E c \in SpecialKeys, outside \in BOOLEAN :
         /\ key_typed' = [c |-> c, outside |-> outside, flip |-> ~key_typed.flip]
         /\ IF JobFinishedWhileWaiting
            THEN pc' = "main" /\ chan_log' = NoSend
            ELSE IF c \in NormalModeKeys \/ (c \in MouseClickKeys /\ outside)
            THEN pc' = "main" /\ chan_log' = NoSend
            ELSE pc' = "vgetc" /\ chan_log' = send_keys_to_term(c)
    /\ BeforeNextKey
    /\ UNCHANGED << keyFrame, wr_msg, vt_calls, attr_call, upd_call, line_call, modeFrame >>

\* terminal_loop: the term_vgetc() after CTRL-W returned c.
terminal_loop_ctrlw(allocs) ==
    /\ ~fault /\ pc = "vgetc_ctrlw"
    /\ \E c \in LoopKeys2 :
         IF JobFinishedWhileWaiting
         THEN pc' = "main" /\ chan_log' = NoSend /\ UNCHANGED modeFrame /\ SetView(View)
         ELSE IF c = "."
         THEN pc' = "vgetc" /\ chan_log' = send_keys_to_term("Ctrl_W")
              /\ UNCHANGED modeFrame /\ SetView(RedrawLoop(View))
         ELSE IF c = "N"
         THEN pc' = "main" /\ chan_log' = NoSend /\ term_enter_terminal_mode(allocs)
              /\ SetView([View EXCEPT !.w_redr_type = redraw_buf_later(wins, w_redr_type)])
         ELSE IF c = "quote"
         THEN pc' = "vgetc_paste" /\ chan_log' = NoSend /\ UNCHANGED modeFrame
              /\ SetView(View)
         ELSE pc' = "main" /\ chan_log' = NoSend /\ UNCHANGED modeFrame /\ SetView(View)
    /\ UNCHANGED << keyFrame, writeVars >>

\* The channel_send() calls term_paste_register() makes for a register of
\* items items: one for each item, and one more with CR behind every item
\* that has a next one or when the register is linewise.
PasteSends(items, type) == items + (IF type = "MLINE" THEN items ELSE items - 1)

\* term_paste_register(): its term_vgetc() returned a register name.  The
\* register holds items items (none when it is empty or unset).  For the
\* register "=" get_expr_register() first prompts for the expression: the
\* function waits there a second time, and callbacks run meanwhile.  For
\* any other register the items are sent at once and terminal_loop
\* continues.
term_paste_register ==
    /\ ~fault /\ pc = "vgetc_paste"
    /\ \E expr \in BOOLEAN, items \in 0..MaxItems, type \in {"MCHAR", "MLINE"} :
         IF expr
         THEN pc' = "get_expr" /\ chan_log' = NoSend /\ SetView(View)
         ELSE /\ pc' = "vgetc"
              /\ chan_log' = IF items = 0 THEN NoSend
                             ELSE channel_send("paste", PasteSends(items, type))
              /\ SetView(RedrawLoop(View))
    /\ UNCHANGED << keyFrame, writeVars, modeFrame >>

\* term_paste_register() after get_expr_register() returned: nothing is
\* sent when the prompt was cancelled; otherwise the items of the
\* expression's value are sent to curbuf->b_term->tl_job->jv_channel as it
\* is by now.  Then terminal_loop continues.
term_paste_register_expr ==
    /\ ~fault /\ pc = "get_expr"
    /\ \E items \in 0..MaxItems, type \in {"MCHAR", "MLINE"}, cancelled \in BOOLEAN :
         chan_log' = IF cancelled \/ items = 0 THEN NoSend
                     ELSE channel_send("paste", PasteSends(items, type))
    /\ pc' = "vgetc"
    /\ SetView(RedrawLoop(View))
    /\ UNCHANGED << keyFrame, writeVars, modeFrame >>

\* f_term_sendkeys(buf, keys): keys is a string of n characters.
f_term_sendkeys ==
    /\ ~fault
    /\ \E n \in 1..2 :
         chan_log' = IF ~tl_vterm THEN NoSend ELSE channel_send("keys", n)
    /\ SetView(IF ~tl_vterm THEN View ELSE update_screen(View))
    /\ UNCHANGED << keyFrame, writeVars, modeFrame, pc >>

\* The host changes the geometry of a window showing the buffer; the host's
\* win_new_height()/win_new_width() mark the window for redraw.
WinResize ==
    /\ ~fault
    /\ \E i \in Showing(wins), h \in 0..MaxWinH, w \in 0..MaxWinW :
         /\ wins[i] # [h |-> h, w |-> w]
         /\ wins' = [wins EXCEPT ![i] = [h |-> h, w |-> w]]
         /\ w_redr_type' = [w_redr_type EXCEPT ![i] = TRUE]
    /\ chan_log' = NoSend
    /\ winsize_report' = << >>
    /\ UNCHANGED << tl_vterm, jobVars, tl_terminal_mode, tl_channel_closed, tl_rows,
                    tl_cols, tl_rows_fixed, tl_cols_fixed, otherVars, curwin, tl_title,
                    tl_status_text, dirtyVars, storeVars, screen, pc, fault, flushHist >>

\* The host opens another window on the buffer: the new window is marked for
\* redraw and, outside terminal_loop(), becomes the current window.
WinOpen ==
    /\ ~fault
    /\ \E i \in WinIds \ Showing(wins), h \in 0..MaxWinH, w \in 0..MaxWinW :
         /\ wins' = [wins EXCEPT ![i] = [h |-> h, w |-> w]]
         /\ w_redr_type' = [w_redr_type EXCEPT ![i] = TRUE]
         /\ curwin' = IF pc = "main" THEN i ELSE curwin
    /\ chan_log' = NoSend
    /\ winsize_report' = << >>
    /\ UNCHANGED << tl_vterm, jobVars, tl_terminal_mode, tl_channel_closed, tl_rows,
                    tl_cols, tl_rows_fixed, tl_cols_fixed, otherVars, tl_title, tl_status_text,
                    dirtyVars, storeVars, screen, pc, fault, flushHist >>

\* The window that is current after window i is closed: another window on
\* the buffer when there is one, else a window on some other buffer (0).
OtherWindow(ws, i) ==
    IF Showing(ws) \ {i} = {} THEN 0 ELSE CHOOSE j \in Showing(ws) \ {i} : TRUE

\* The host closes a window on the buffer (the buffer stays loaded); the
\* current window is not closed while terminal_loop() runs in it.
WinClose ==
    /\ ~fault
    /\ \E i \in Showing(wins) :
         /\ pc = "main" \/ i # curwin
         /\ wins' = [wins EXCEPT ![i] = NoWin]
         /\ w_redr_type' = [w_redr_type EXCEPT ![i] = FALSE]
         /\ curwin' = IF i = curwin THEN OtherWindow(wins, i) ELSE curwin
    /\ chan_log' = NoSend
    /\ winsize_report' = << >>
    /\ UNCHANGED << tl_vterm, jobVars, tl_terminal_mode, tl_channel_closed, tl_rows,
                    tl_cols, tl_rows_fixed, tl_cols_fixed, otherVars, tl_title, tl_status_text,
                    dirtyVars, storeVars, screen, pc, fault, flushHist >>

\* -------------------------------------------------------- specifications
\* Scrollback store and session life cycle.
Next ==
    \/ JobOutputPut(FALSE)
    \/ JobOutputScroll(AllocOk, FALSE)
    \/ term_channel_closed(AllocOk)
    \/ terminal_loop_enter
    \/ terminal_loop_key
    \/ terminal_loop_ctrlw(AllocOk)
    \/ term_leave_terminal_mode(AllocOk)

Spec == Init /\ [][Next]_vars

\* The same with the history of the damage callbacks recorded.
NextDamage ==
    \/ JobOutputPut(TRUE)
    \/ JobOutputScroll(AllocOk, TRUE)
    \/ term_channel_closed(AllocOk)
    \/ terminal_loop_enter
    \/ terminal_loop_key
    \/ terminal_loop_ctrlw(AllocOk)
    \/ term_leave_terminal_mode(AllocOk)

SpecDamage == Init /\ [][NextDamage]_vars

\* The same with the title and the status cache.
NextStatus ==
    \/ Next
    \/ JobOutputTitle
    \/ term_get_status_text

SpecStatus == Init /\ [][NextStatus]_vars

\* The session with special keys typed and the job ending.
NextKeys ==
    \/ terminal_loop_enter
    \/ terminal_loop_special_key
    \/ JobOutputPut(FALSE)
    \/ term_job_ended
    \/ term_channel_closed(AllocOk)

SpecKeys == Init /\ [][NextKeys]_vars

\* The session with its window redrawn.
NextRender ==
    \/ JobOutputPut(FALSE)
    \/ term_channel_closed(AllocOk)
    \/ terminal_loop_enter
    \/ terminal_loop_key
    \/ terminal_loop_ctrlw(AllocOk)
    \/ term_leave_terminal_mode(AllocOk)
    \/ term_update_window_drawing

SpecRender == Init /\ [][NextRender]_vars

\* A session, with 'termsize' or without, that shows wide characters in
\* windows of any size.
NextWide ==
    \/ JobOutputWide
    \/ WinResize
    \/ term_update_window_drawing

\* The same with the job's end and every input path.
NextInput ==
    \/ Next
    \/ term_job_ended
    \/ term_paste_register
    \/ term_paste_register_expr
    \/ f_term_sendkeys

SpecInput == Init /\ [][NextInput]_vars

\* Resize negotiation: a live session, its windows and 'termsize'.
InitResize ==
    /\ \E rows \in 1..MaxWinH, cols \in 1..MaxWinW, rfixed \in BOOLEAN, cfixed \in BOOLEAN :
        InitSession(rows, cols, rfixed, cfixed,
                    [i \in WinIds |-> IF i = 1 THEN [h |-> rows, w |-> cols] ELSE NoWin])
    /\ ColorIdle

SpecWide == InitResize /\ [][NextWide]_vars

NextResize ==
    \/ WinResize
    \/ WinOpen
    \/ WinClose
    \/ term_update_window

SpecResize == InitResize /\ [][NextResize]_vars

\* The session with the title, the status cache and the job's end.
NextCache ==
    \/ NextStatus
    \/ term_job_ended

SpecCache == Init /\ [][NextCache]_vars

\* Job output that writes cells and moves rows, until the channel closes.
NextMove ==
    \/ JobOutputPut(FALSE)
    \/ JobOutputMove
    \/ term_channel_closed(AllocOk)

SpecMove == Init /\ [][NextMove]_vars

\* Two windows on a live session, with or without a fixed number of rows
\* ('termsize'): the cursor moves, the windows are resized and redrawn.
InitCursor ==
    /\ \E rows \in 1..MaxRows, cols \in 1..MaxCols, rows_fixed \in BOOLEAN :
        InitSession(rows, cols, rows_fixed, FALSE,
                    [i \in WinIds |-> [h |-> rows, w |-> cols]])
    /\ ColorIdle

NextCursor ==
    \/ JobOutputCursor
    \/ WinResize
    \/ term_update_window

SpecCursor == InitCursor /\ [][NextCursor]_vars

\* The same session when ga_grow() and alloc() may fail.  A line that is
\* stored without its text reaching the buffer is not taken back by
\* term_leave_terminal_mode, so the store can grow with every flush; flushes
\* are explored while the store is within StoreCap.
StoreCap == Len(tl_scrollback) <= MaxScrolled

NextAlloc ==
    \/ JobOutputPut(FALSE)
    \/ JobOutputScroll(AllocAny, FALSE)
    \/ (StoreCap /\ term_channel_closed(AllocAny))
    \/ terminal_loop_enter
    \/ terminal_loop_key
    \/ (StoreCap /\ terminal_loop_ctrlw(AllocAny))
    \/ (StoreCap /\ term_leave_terminal_mode(AllocAny))

SpecAlloc == Init /\ [][NextAlloc]_vars

\* A session that finishes, with output, redraws and term_sendkeys() going on.
NextFinished ==
    \/ JobOutputPut(FALSE)
    \/ JobOutputTitle
    \/ term_channel_closed(AllocOk)
    \/ WinResize
    \/ term_update_window
    \/ f_term_sendkeys

SpecFinished == Init /\ [][NextFinished]_vars

\* The session with the host changing the buffer of a finished terminal.
NextStore ==
    \/ Next
    \/ term_change_in_curbuf

SpecStore == Init /\ [][NextStore]_vars

\* A terminal of one row: its store still gets the scrolled-off rows and the
\* row of the screen.
InitAttr ==
    /\ \E cols \in 1..MaxCols :
        InitSession(1, cols, FALSE, FALSE,
                    [i \in WinIds |-> IF i = 1 THEN [h |-> 1, w |-> cols] ELSE NoWin])
    /\ ColorIdle

\* The session with the host changing the buffer of a finished terminal and
\* asking for the attributes of the buffer text.
NextAttr ==
    \/ JobOutputPut(FALSE)
    \/ JobOutputScroll(AllocOk, FALSE)
    \/ term_channel_closed(AllocOk)
    \/ terminal_loop_enter
    \/ terminal_loop_key
    \/ terminal_loop_ctrlw(AllocOk)
    \/ term_change_in_curbuf
    \/ term_get_attr

SpecAttr == InitAttr /\ [][NextAttr]_vars

\* The session with term_getline() and term_scrape() called once it finished,
\* before and after the host changes the buffer.
NextLines ==
    \/ Next
    \/ term_change_in_curbuf
    \/ (~tl_vterm /\ f_term_getline)
    \/ (~tl_vterm /\ f_term_scrape)

SpecLines == Init /\ [][NextLines]_vars

\* The list of terminals: sessions are opened, change state and are wiped.
NextRegistry ==
    \/ ex_terminal
    \/ ex_terminal_split_failed
    \/ do_buffer_wipe
    \/ term_job_ended_in_list
    \/ term_channel_closed_in_list
    \/ term_enter_terminal_mode_in_list
    \/ term_leave_terminal_mode_in_list
    \/ term_change_in_curbuf_in_list
    \/ handle_pushline_in_list

OneByOne ==
    InitSession(1, 1, FALSE, FALSE, [i \in WinIds |-> IF i = 1 THEN [h |-> 1, w |-> 1] ELSE NoWin])

InitRegistry == OneByOne /\ ColorIdle

\* color2index() called for every colour, side and host capability.
InitColor ==
    /\ OneByOne
    /\ color_arg \in ColorArgs
    /\ color_ret = NoIndex

NextColor == cell2attr

SpecColor == InitColor /\ [][NextColor]_vars

SpecRegistry == InitRegistry /\ [][NextRegistry]_vars

\* Chunks of job output written to the vterm of a live session.
NextWrite == term_write_job_output

SpecWrite == InitRegistry /\ [][NextWrite]_vars

\* ================================================================ claims
\* Reference definitions the claims are stated with.

\* Rows of the tl_rows x tl_cols screen holding a non-empty cell.
NonEmptyRows(scr, rows, cols) ==
    {r \in 1..rows : \E c \in 1..cols :
        r <= Len(scr) /\ c <= Len(scr[r]) /\ scr[r][c].chars # NUL}

SetMax(S) == IF S = {} THEN 0 ELSE CHOOSE m \in S : \A x \in S : x <= m

LastNonEmptyRow(scr, rows, cols) == SetMax(NonEmptyRows(scr, rows, cols))

RowWidth(scr, r, cols) ==
    SetMax({c \in 1..cols : c <= Len(scr[r]) /\ scr[r][c].chars # NUL})

\* One entry per screen row up to the last non-empty row, empty rows as
\* zero-width entries.
ExpectedFlush(scr, rows, cols) ==
    [r \in 1..LastNonEmptyRow(scr, rows, cols) |->
        LET w == RowWidth(scr, r, cols)
        IN SbLine(w, IF w = 0 THEN NoCells ELSE SubSeq(scr[r], 1, w))]

\* The buffer that shows the store sb line by line.
DocOf(sb) == IF sb = << >> THEN EmptyBuffer ELSE [i \in 1..Len(sb) |-> LineText(sb[i])]

\* A step in which term_leave_terminal_mode acted (it returned, or it ran
\* into the fault).
LeaveStep == tl_terminal_mode /\ (~tl_terminal_mode' \/ (fault' /\ ~fault))

\* A step in which term_enter_terminal_mode acted.
EnterStep == ~tl_terminal_mode /\ tl_terminal_mode'

\* A step in which one sb_pushline callback was delivered.
PushStep == nPush' = nPush + 1

\* A step in which the channel-closed notification was delivered.
ClosedStep == ch_open /\ ~ch_open'

\* C1: entering Terminal-Normal mode and leaving it with no event in between
\* returns and leaves the buffer's line count at its value before entering.
C1_RoundTripLineCount ==
    [][ ( /\ LeaveStep
          /\ ~tl_channel_closed
          /\ Len(tl_scrollback) = flushBase + flushedN )
        => ( ~fault' /\ ml_line_count(buf_lines') = flushLines ) ]_vars

\* C2: when lines were pushed while in Terminal-Normal mode, leaving it
\* removes from the store and the buffer exactly the rows the entering flush
\* appended and keeps every pushed row.
C2_ResumeRemovesFlushedRows ==
    [][ ( /\ LeaveStep
          /\ ~tl_channel_closed
          /\ Len(tl_scrollback) > flushBase + flushedN )
        => ( /\ ~fault'
             /\ tl_scrollback' = SubSeq(tl_scrollback, 1, flushBase)
                    \o SubSeq(tl_scrollback, flushBase + flushedN + 1, Len(tl_scrollback))
             /\ buf_lines' = DocOf(tl_scrollback') ) ]_vars

\* C3 as claimed: after a non-empty sequence of damage callbacks the dirty
\* range is [min start_row, max end_row) of the callbacks.
C3_DirtyRangeIsUnionOfDamage ==
    dmg # << >> => (tl_dirty_row_start = dmg[1] /\ tl_dirty_row_end = dmg[2])

\* C3 amended: the callbacks are united with the range the session starts
\* with, [0, MAX_ROW): start = min(0, min start_row) and
\* end = max(MAX_ROW, max end_row), whatever the order.
C3_DirtyRangeIncludesInitial ==
    dmg # << >> => ( /\ tl_dirty_row_start = MIN(0, dmg[1])
                     /\ tl_dirty_row_end = MAX(MAX_ROW, dmg[2]) )

C3_Witness == dmg # << >> /\ dmg[1] > 0

\* C4: each sb_pushline adds one entry at the end of the store, increments
\* tl_scrollback_scrolled and appends one line to the buffer (the first one
\* replacing the empty line); in Job mode the store length and the scrolled
\* counter equal the number of pushed lines.
C4_PushLineAddsOneEntry ==
    /\ [][ PushStep =>
            /\ Len(tl_scrollback') = Len(tl_scrollback) + 1
            /\ SubSeq(tl_scrollback', 1, Len(tl_scrollback)) = tl_scrollback
            /\ tl_scrollback_scrolled' = tl_scrollback_scrolled + 1
            /\ buf_lines' = IF Len(tl_scrollback) = 0
                            THEN << LineText(tl_scrollback'[1]) >>
                            ELSE Append(buf_lines,
                                        LineText(tl_scrollback'[Len(tl_scrollback')])) ]_vars
    /\ []( (tl_vterm /\ ~tl_terminal_mode) =>
            (Len(tl_scrollback) = nPush /\ tl_scrollback_scrolled = nPush) )

C4_Witness ==
    /\ tl_vterm /\ ~tl_terminal_mode
    /\ nPush = 2 /\ Len(tl_scrollback) = 2 /\ ml_line_count(buf_lines) = 2

\* A step in which move_terminal_to_buffer flushed the screen on top of the
\* store as it was (entering Terminal-Normal mode, or the channel closing in
\* Job mode).
FlushStep == EnterStep \/ (ClosedStep /\ ~tl_terminal_mode)

\* C5: a flush appends one entry per screen row up to the last non-empty
\* row, a zero-width entry for each empty row among them, and nothing for the
\* empty rows after it.
C5_FlushSkipsTrailingEmptyRows ==
    [][ FlushStep =>
          tl_scrollback' = tl_scrollback \o ExpectedFlush(screen, tl_rows, tl_cols) ]_vars

C5_Witness ==
    /\ tl_terminal_mode
    /\ flushedN = 2
    /\ Len(tl_scrollback) = flushBase + 2
    /\ tl_scrollback[flushBase + 1].sb_cols = 0
    /\ tl_scrollback[flushBase + 2].sb_cols > 0

\* C6: when the channel closes in Job mode, term_channel_closed returns with
\* the screen flushed as it was while the vterm still existed, the vterm
\* freed, title and status text cleared, the mode not Terminal-Normal, and
\* the store holding the scrolled lines followed by the screen rows up to the
\* last non-empty one.
C6_ClosedInJobModeFlushesThenFrees ==
    [][ (ClosedStep /\ ~tl_terminal_mode) =>
          /\ ~tl_vterm'
          /\ tl_channel_closed'
          /\ tl_title' = "NULL" /\ tl_status_text' = "NULL"
          /\ ~tl_terminal_mode'
          /\ tl_scrollback' = tl_scrollback \o ExpectedFlush(screen, tl_rows, tl_cols)
          /\ Len(tl_scrollback') =
                tl_scrollback_scrolled' + LastNonEmptyRow(screen, tl_rows, tl_cols)
          /\ tl_scrollback_scrolled' = nPush ]_vars

C6_Witness ==
    /\ ~tl_vterm /\ tl_channel_closed /\ ~tl_terminal_mode
    /\ flushBase = tl_scrollback_scrolled
    /\ tl_scrollback_scrolled > 0
    /\ Len(tl_scrollback) > tl_scrollback_scrolled

\* C7: once the vterm is gone nothing is sent to the channel by an input
\* operation: term_sendkeys() and terminal_loop send no key, term_use_loop()
\* is false and terminal_loop is not entered.
C7_NoInputAfterVtermFreed ==
    /\ [](~tl_vterm => ~term_use_loop)
    /\ [][ ~tl_vterm =>
            /\ chan_log'.queued = 0
            /\ chan_log'.src # "keys"
            /\ ~(pc = "main" /\ pc' = "vgetc") ]_vars

C7_Witness == ~tl_vterm /\ pc \in {"vgetc", "vgetc_ctrlw"}

\* C8 as claimed: the channel closing in Terminal-Normal mode frees the vterm.
C8_ClosedInTerminalModeFrees ==
    [][ (ClosedStep /\ tl_terminal_mode) => ~tl_vterm' ]_vars

\* C8 amended: the channel closing in Terminal-Normal mode does not finish
\* the session in that step: term_channel_closed() only sets
\* tl_channel_closed and clears title and status text; the vterm, the mode,
\* the store with its scrolled count, the buffer and the engine's screen stay
\* as they are, and nothing is flushed.
C8_ClosedInTerminalModeDefers ==
    [][ (ClosedStep /\ tl_terminal_mode) =>
          /\ tl_vterm' /\ tl_terminal_mode' /\ tl_channel_closed'
          /\ tl_title' = "NULL" /\ tl_status_text' = "NULL"
          /\ UNCHANGED << tl_scrollback, tl_scrollback_scrolled, buf_lines, screen,
                          flushHist >> ]_vars

\* The channel was closed while the session was in Terminal-Normal mode with
\* rows flushed on entering it: the session still is in the mode.
C8_Witness == tl_terminal_mode /\ tl_channel_closed /\ tl_vterm /\ flushedN > 0

\* C9 as claimed: the vterm is NULL exactly when the channel was reported
\* closed and the screen content has been flushed.
C9_VtermNullIffClosedAndFlushed ==
    ~tl_vterm <=> (tl_channel_closed /\ flushBase >= 0)

\* C9 amended: the vterm is NULL exactly when the channel was reported closed
\* and the session is not in Terminal-Normal mode (and then the screen has
\* been flushed); with the channel closed in Terminal-Normal mode the vterm
\* stays until term_leave_terminal_mode.
C9_VtermNullIffClosedOutsideTerminalMode ==
    /\ ~tl_vterm <=> (tl_channel_closed /\ ~tl_terminal_mode)
    /\ ~tl_vterm => (flushBase >= 0 /\ ~ch_open)

C9_Witness ==
    /\ tl_vterm /\ tl_channel_closed /\ tl_terminal_mode
    /\ tl_job = "ended" /\ flushBase >= 0

SetMin(S) == CHOOSE m \in S : \A x \in S : m <= x

\* C10: a size applied by term_update_window is, in each dimension that is
\* not fixed, the smallest of the windows showing the buffer (so at most each
\* of them), and in each fixed dimension the terminal's current value.
C10_ResizeUsesSmallestWindow ==
    [][ winsize_report' # << >> =>
          /\ tl_rows' = winsize_report'[1] /\ tl_cols' = winsize_report'[2]
          /\ \A i \in Showing(wins) :
                /\ ~tl_rows_fixed => tl_rows' <= wins[i].h
                /\ ~tl_cols_fixed => tl_cols' <= wins[i].w
          /\ ~tl_rows_fixed => tl_rows' = SetMin({wins[i].h : i \in Showing(wins)})
          /\ ~tl_cols_fixed => tl_cols' = SetMin({wins[i].w : i \in Showing(wins)})
          /\ tl_rows_fixed => tl_rows' = tl_rows
          /\ tl_cols_fixed => tl_cols' = tl_cols ]_vars

C10_Witness ==
    /\ winsize_report # << >>
    /\ Cardinality(Showing(wins)) = 2
    /\ ~tl_rows_fixed /\ tl_cols_fixed
    /\ tl_rows = winsize_report[1]

\* C11: a size applied by term_update_window and reported to the job is at
\* least 1 row by 1 column, whatever the geometry of the windows.
C11_ResizeNeverBelowOneByOne ==
    [][ winsize_report' # << >> =>
          (winsize_report'[1] >= 1 /\ winsize_report'[2] >= 1) ]_vars

\* C12: in Terminal-Normal mode no input operation sends bytes to the job's
\* channel: term_use_loop() is false, terminal_loop is not entered and
\* term_sendkeys() sends nothing.
C12_NoInputInTerminalMode ==
    [][ tl_terminal_mode =>
          /\ ~term_use_loop
          /\ chan_log'.queued = 0
          /\ ~(pc = "main" /\ pc' = "vgetc") ]_vars

\* A step in which ex_terminal() linked the term_T at t and
\* term_and_job_init() failed for it.
OpenFailedStep(t) ==
    terms[t].alloc = "unused" /\ terms'[t].linked /\ terms'[t].alloc # "live"

\* C13: when term_and_job_init() fails, ex_terminal() returns with the
\* terminal out of the list, b_term of its buffer NULL, the vterm and the
\* scrollback freed once each, every job reference taken given back once, and
\* with nothing left for a further free_terminal() of the buffer to change.
C13_FailedOpenIsDiscarded ==
    [][ \A t \in TermIds : OpenFailedStep(t) =>
          /\ ~fault'
          /\ terms'[t].alloc = "freed"
          /\ ~Listed(t)'
          /\ first_term' = first_term
          /\ b_term'[t] = NULL
          /\ ~terms'[t].tl_vterm /\ terms'[t].n_vterm_free = 1
          /\ terms'[t].n_free_scrollback = 1
          /\ terms'[t].job_refs = 0
          /\ terms'[t].n_job_unref = (IF terms'[t].tl_job = "NULL" THEN 0 ELSE 1)
          /\ free_terminal(Reg', t) = Reg'
          /\ \A u \in TermIds \ {t} : terms'[u] = terms[u] ]_vars

C13_Witness ==
    \E t \in TermIds :
        /\ terms[t].alloc = "freed" /\ terms[t].linked
        /\ terms[t].tl_job = "started" /\ ~terms[t].jv_channel
        /\ terms[t].n_job_stop = 1
        /\ first_term # NULL

\* A step in which free_terminal() freed the terminal t of a session that
\* had been started.
FreeStep(t) == terms[t].alloc = "live" /\ terms'[t].alloc = "freed"

\* C14: free_terminal() of a started session in any mode calls job_stop()
\* exactly when the job's status is neither ended nor failed, gives back the
\* one job reference, leaves the vterm freed (once over the life of the
\* session) and the scrollback freed by one more free_scrollback(), sets
\* b_term of the buffer to NULL and does not wait for the job: its status is
\* as before.
C14_FreeTerminalReleasesAll ==
    [][ \A t \in TermIds : FreeStep(t) =>
          /\ ~fault'
          /\ terms'[t].n_job_stop =
                (IF terms[t].tl_job \notin {"ended", "failed"} THEN 1 ELSE 0)
          /\ terms'[t].n_job_unref = 1 /\ terms[t].job_refs = 1 /\ terms'[t].job_refs = 0
          /\ ~terms'[t].tl_vterm /\ terms'[t].n_vterm_free = 1
          /\ terms'[t].ga_len = 0
          /\ terms'[t].n_free_scrollback = terms[t].n_free_scrollback + 1
          /\ \A b \in TermIds : b_term'[b] # t
          /\ terms'[t].tl_job = terms[t].tl_job ]_vars

C14_Witness ==
    \E t \in TermIds :
        /\ terms[t].alloc = "freed" /\ terms[t].jv_channel
        /\ terms[t].tl_terminal_mode /\ terms[t].tl_job = "started"
        /\ terms[t].n_job_stop = 1

\* The term_T objects that were linked and not freed.
LiveTerms == {t \in TermIds : terms[t].alloc = "live"}

\* C15: the list starting at first_term holds exactly the terminals that were
\* created and not freed, each once, and free_terminal() never walks a list
\* that starts at NULL: the only fault is that of term_leave_terminal_mode()
\* for a listed terminal whose store is empty and whose buffer has more
\* lines than have scrolled.
C15_ListHoldsLiveTerminals ==
    LET L == TermList(first_term, terms)
    IN /\ fault => \E t \in TermIds :
                      /\ Listed(t) /\ terms[t].tl_terminal_mode /\ terms[t].ga_len = 0
                      /\ terms[t].ml_line_count > terms[t].tl_scrollback_scrolled
       /\ {L[i] : i \in 1..Len(L)} = LiveTerms
       /\ Len(L) = Cardinality(LiveTerms)

C15_Witness ==
    /\ terms[2].alloc = "freed" /\ terms[2].jv_channel
    /\ TermList(first_term, terms) = << 3, 1 >>

\* C16: whatever allocations fail in handle_pushline and
\* move_terminal_to_buffer, every stored line with sb_cols > 0 has a cell
\* array of sb_cols cells and a line without a cell array has sb_cols = 0.
C16_StoreWellFormed ==
    \A i \in 1..Len(tl_scrollback) :
        /\ tl_scrollback[i].sb_cols > 0 =>
              Len(tl_scrollback[i].sb_cells) = tl_scrollback[i].sb_cols
        /\ tl_scrollback[i].sb_cells = NoCells => tl_scrollback[i].sb_cols = 0

\* The fields of the session, its scrollback and its buffer.
SessionState ==
    << tl_vterm, tl_job, ch_open, tl_terminal_mode, tl_channel_closed, tl_rows, tl_cols,
       tl_rows_fixed, tl_cols_fixed, tl_title, tl_status_text, tl_dirty_row_start,
       tl_dirty_row_end, tl_scrollback, tl_scrollback_scrolled, buf_lines, screen, wins >>

\* C17: without a vterm, write_to_term(), term_update_window() and
\* term_sendkeys() leave the fields of the session, the scrollback and the
\* buffer as they are, and nothing is sent.
C17_NoVtermOperationsChangeNothing ==
    [][ ( /\ ~tl_vterm
          /\ \/ JobOutputPut(FALSE)
             \/ JobOutputScroll(AllocOk, FALSE)
             \/ JobOutputTitle
             \/ term_update_window
             \/ f_term_sendkeys )
        => ( /\ UNCHANGED SessionState
             /\ ~fault'
             /\ chan_log'.calls = 0
             /\ winsize_report' = << >> ) ]_vars

C17_Witness ==
    /\ ~tl_vterm
    /\ Len(tl_scrollback) > 0
    /\ \E wp \in Showing(wins) : NeedsResize(View, wp)

\* The store sb2 begins with the lines of sb1, in their order.
IsPrefix(sb1, sb2) == Len(sb1) <= Len(sb2) /\ SubSeq(sb2, 1, Len(sb1)) = sb1

\* C18: in Job mode (vterm present, not Terminal-Normal mode) no step
\* shortens the scrollback or changes a line already stored; the scrollback
\* loses lines only in term_leave_terminal_mode and when
\* term_change_in_curbuf frees it for a finished terminal.
C18_StoreOnlyGrowsInJobMode ==
    /\ [][ (tl_vterm /\ ~tl_terminal_mode) =>
             (~fault' /\ IsPrefix(tl_scrollback, tl_scrollback')) ]_vars
    /\ [][ ~IsPrefix(tl_scrollback, tl_scrollback') =>
             (LeaveStep \/ (~tl_vterm /\ ~tl_terminal_mode /\ tl_scrollback' = << >>)) ]_vars

C18_Witness ==
    /\ ~tl_vterm
    /\ tl_scrollback = << >>
    /\ tl_scrollback_scrolled = 2
    /\ ml_line_count(buf_lines) >= 2

\* C19: a terminal whose vterm was freed never gets a vterm again, never
\* goes to Terminal-Normal mode again, and stays in the list of terminals
\* until free_terminal() is called for its buffer.
C19_FinishedIsFinal ==
    [][ \A t \in TermIds : (terms[t].alloc = "live" /\ ~terms[t].tl_vterm) =>
          /\ ~terms'[t].tl_vterm
          /\ ~terms'[t].tl_terminal_mode
          /\ \/ (terms'[t].alloc = "live" /\ Listed(t)')
             \/ (b_term[t] = t /\ b_term'[t] = NULL /\ terms'[t].alloc = "freed") ]_vars

C19_Witness ==
    \E t \in TermIds, u \in TermIds :
        /\ terms[t].alloc = "live" /\ ~terms[t].tl_vterm /\ Listed(t)
        /\ terms[t].tl_job = "ended" /\ terms[t].ga_len > 0
        /\ u > t /\ terms[u].alloc = "freed" /\ terms[u].jv_channel

\* C20: for a host colour capability color2index() gives every RGB triple
\* one index that is not negative, the same whenever it is asked again, and
\* 0 exactly when no colour is recognised (none of the named colours and no
\* 256-colour palette); with 256 colours greys get 233..256 and every other
\* colour 17..232.
C20_Color2IndexTotal ==
    /\ \A b \in 0..255 :
         LET a == [color_arg EXCEPT !.blue = b]
             named == NamedColor(a.red, a.green, a.blue) >= 0
             i == color2index(a)
         IN /\ i \in 0..256
            /\ i = 0 <=> (~named /\ a.t_colors < 256)
            /\ (~named /\ a.t_colors >= 256) =>
                  IF a.red = a.green /\ a.red = a.blue THEN i \in 233..256
                  ELSE i \in 17..232
    /\ color_ret # NoIndex => color_ret = color2index(color_arg)

C20_Witness ==
    /\ color_ret = 0
    /\ color_arg.red = 64 /\ color_arg.green = 128 /\ color_arg.t_colors = 88

\* The integer nearest to x / 51 (no component lies half-way: 51 is odd).
Round51(x) == CHOOSE k \in 0..5 : 2 * x - 102 * k < 51 /\ 102 * k - 2 * x < 51

\* The colours of the 6x6x6 cube: no named colour, not a grey, 256 colours.
InCube(a) ==
    /\ a.t_colors >= 256
    /\ NamedColor(a.red, a.green, a.blue) < 0
    /\ ~(a.red = a.green /\ a.red = a.blue)

\* C21 as stated: with 256 colours a colour that is no table entry and no
\* grey gets 16 + 36*round(R/51) + 6*round(G/51) + round(B/51).
C21_CubeFromSixteen ==
    \A b \in 0..255 :
       LET a == [color_arg EXCEPT !.blue = b]
       IN InCube(a) =>
            color2index(a) = 16 + 36 * Round51(a.red) + 6 * Round51(a.green) + Round51(a.blue)

\* C21: with 256 colours a colour that is no table entry and no grey gets
\* 17 + 36*round(R/51) + 6*round(G/51) + round(B/51): the cube entry
\* 16 + ... counted from 1, as every index color2index() returns is (0 is
\* "no match").
C21_CubeFromSeventeen ==
    /\ \A b \in 0..255 :
         LET a == [color_arg EXCEPT !.blue = b]
         IN InCube(a) =>
              color2index(a) = 17 + 36 * Round51(a.red) + 6 * Round51(a.green) + Round51(a.blue)
    /\ (color_ret # NoIndex /\ InCube(color_arg)) =>
          color_ret = 17 + 36 * Round51(color_arg.red) + 6 * Round51(color_arg.green)
                         + Round51(color_arg.blue)

C21_Witness ==
    /\ InCube(color_arg)
    /\ color_arg.red = 64 /\ color_arg.green = 128 /\ color_arg.blue = 224
    /\ color_ret = 75

\* A step in which the session became finished (the vterm was freed).
FinishStep == tl_vterm /\ ~tl_vterm'

\* The rows the store holds from sb_pushline callbacks: in Terminal-Normal
\* mode everything but the rows flushedN the entering flush put at flushBase.
PushedRows ==
    IF tl_terminal_mode
    THEN SubSeq(tl_scrollback, 1, flushBase)
            \o SubSeq(tl_scrollback, flushBase + flushedN + 1, Len(tl_scrollback))
    ELSE tl_scrollback

\* C22: whichever way the session finishes (channel closed in Job mode, or
\* closed in Terminal-Normal mode and then left), the store and the buffer
\* then hold the rows captured by sb_pushline followed by the rows of the
\* final screen up to the last non-empty one, each once: the store is
\* tl_scrollback_scrolled plus that many rows long.
C22_FinishedHoldsPushedThenScreen ==
    [][ FinishStep =>
          /\ Len(tl_scrollback') =
                tl_scrollback_scrolled' + LastNonEmptyRow(screen, tl_rows, tl_cols)
          /\ tl_scrollback' = PushedRows \o ExpectedFlush(screen, tl_rows, tl_cols)
          /\ buf_lines' = DocOf(tl_scrollback') ]_vars

\* C23: while the vterm exists, tl_rows and tl_cols are the size of the
\* vterm's screen after every operation: opening, job output, the resize
\* callback and the size adjustment of term_update_window.
C23_SizeMirrorsEngine ==
    (tl_vterm /\ ~fault) =>
        /\ Len(screen) = tl_rows
        /\ \A r \in 1..Len(screen) : Len(screen[r]) = tl_cols

C23_Witness ==
    /\ tl_vterm
    /\ winsize_report = << 3, 1 >>
    /\ Len(screen) = 3 /\ tl_rows = 3
    /\ Len(screen[3]) = 1 /\ tl_cols = 1

\* C24: the cached status text is NULL or the text term_get_status_text()
\* makes from the current mode, title and term_job_running(); every step
\* that changes one of the three (set_terminal_mode, the title callback,
\* term_job_ended, term_channel_closed) leaves the cache NULL.
C24_StatusCacheIsCurrent ==
    [][ /\ tl_status_text' \in
              {"NULL", StatusTextOf(tl_terminal_mode', tl_title', term_job_running')}
        /\ ( \/ tl_terminal_mode' # tl_terminal_mode
             \/ tl_title' # tl_title
             \/ term_job_running' # term_job_running )
           => tl_status_text' = "NULL" ]_vars

C24_Witness ==
    /\ tl_terminal_mode /\ tl_job = "ended" /\ ch_open
    /\ tl_status_text = "Terminal-finished"

\* A step in which one moverect callback was delivered.
MoveStep == mv_flip' # mv_flip

\* C25: a moverect callback leaves the dirty range as a damage callback over
\* the rows of the source and the destination would: the range after the
\* callback is the range before united with both rectangles, and so covers
\* every row of both.
C25_MoveRectDamagesBoth ==
    [][ MoveStep =>
          LET dest == mv_rects'[1]
              src == mv_rects'[2]
              first == MIN(dest.start_row, src.start_row)
              last == MAX(dest.end_row, src.end_row)
          IN /\ tl_dirty_row_start' = MIN(tl_dirty_row_start, first)
             /\ tl_dirty_row_end' = MAX(tl_dirty_row_end, last)
             /\ tl_dirty_row_start' <= first
             /\ tl_dirty_row_end' >= last ]_vars

C25_Witness ==
    /\ mv_rects = << Rect(1, 2), Rect(0, 1) >>
    /\ screen[2][1].chars = CharA /\ screen[1][1].chars = NUL
    /\ tl_dirty_row_start = 0 /\ tl_dirty_row_end = MAX_ROW

\* C26: when term_update_window has applied a new size, every window showing
\* the buffer has its cursor at the engine's cursor position (kept inside the
\* window), not only the window being updated.
C26_CursorSetInAllWindows ==
    [][ (winsize_report' # << >> /\ << tl_rows', tl_cols' >> # << tl_rows, tl_cols >>) =>
          \A i \in Showing(wins') :
             /\ w_wrow'[i] = position_cursor(wins'[i], vt_pos').row
             /\ w_wcol'[i] = position_cursor(wins'[i], vt_pos').col ]_vars

\* The chunk with every NL made CR NL.
RECURSIVE Crlf(_)
Crlf(msg) ==
    IF msg = << >> THEN << >>
    ELSE (IF Head(msg) = NL THEN << CAR, NL >> ELSE << Head(msg) >>) \o Crlf(Tail(msg))

\* The bytes of the first n calls, in order.
RECURSIVE FedBytes(_, _)
FedBytes(calls, n) ==
    IF n = 0 THEN << >> ELSE FedBytes(calls, n - 1) \o calls[n].data

\* C27: term_write_job_output() returns for every chunk; the bytes it wrote
\* to the engine are the chunk with every NL replaced by CR NL and every
\* other byte (a lone CR too) as it was, each once and in order; the damage
\* is flushed once, after the last write.
C27_OutputFedWithCrNl ==
    vt_calls # << >> =>
        LET n == Len(vt_calls)
        IN /\ vt_calls[n].op = "flush"
           /\ \A i \in 1..(n - 1) : vt_calls[i].op = "write"
           /\ FedBytes(vt_calls, n - 1) = Crlf(wr_msg)

\* The answer term_get_attr() has to give on store sb: 0 (<< >>) behind the
\* store and behind the width of the entry, else the attributes of cell col
\* of entry lnum - 1 (<< cell >>).
AttrOf(sb, lnum, col) ==
    IF lnum > Len(sb) THEN << >>
    ELSE IF col >= sb[lnum].sb_cols THEN << >>
    ELSE << sb[lnum].sb_cells[col + 1] >>

\* C28: in Terminal-Normal mode and for a finished terminal term_get_attr()
\* gives 0 for a line behind the store and for a column not below the width
\* of the entry, and the attributes of cell col of entry lnum - 1 otherwise;
\* it reads no other cell and none outside the store or a cell array, also
\* when term_change_in_curbuf() has freed the store.
C28_GetAttrStaysInStore ==
    [][ /\ term_show_buffer' =>
            \A lnum \in 1..(Len(tl_scrollback') + 2), col \in 0..(MaxWinW + 1) :
               LET res == GetAttr(tl_scrollback', lnum, col)
               IN /\ ~res.outside
                  /\ res.ret = AttrOf(tl_scrollback', lnum, col)
                  /\ res.read \subseteq {<< lnum - 1, col >>}
                  /\ res.read # {} =>
                        (lnum <= Len(tl_scrollback')
                            /\ col < Len(tl_scrollback'[lnum].sb_cells))
        /\ attr_call' # attr_call =>
            /\ ~fault'
            /\ attr_call'.ret = AttrOf(tl_scrollback, attr_call'.lnum, attr_call'.col) ]_vars

C28_Witness ==
    /\ tl_vterm /\ tl_terminal_mode
    /\ attr_call.lnum = Len(tl_scrollback)
    /\ attr_call.ret # << >>
    /\ attr_call.read = {<< attr_call.lnum - 1, attr_call.col >>}
    /\ ~fault

\* The keys the terminal has no encoding for.
DropKeys == ReservedKeys \cup GuiKeys \cup UnsupportedMouseKeys

\* C29: for a reserved key, a key of the GUI and an unsupported mouse button
\* term_convert_key() gives zero bytes and send_keys_to_term() sends nothing
\* to the channel.
C29_DropKeysSendNothing ==
    [][ /\ \A c \in DropKeys : term_convert_key(c) = 0 /\ send_keys_to_term(c) = NoSend
        /\ (key_typed'.flip # key_typed.flip /\ key_typed'.c \in DropKeys) =>
              /\ term_convert_key(key_typed'.c) = 0
              /\ chan_log' = NoSend
              /\ ch_open' = ch_open ]_vars

C29_Witness ==
    /\ key_typed.c = "K_X1MOUSE" /\ ~key_typed.outside
    /\ pc = "vgetc" /\ tl_vterm /\ ch_open
    /\ chan_log = NoSend

\* C30: a call of term_update_window() draws the engine's screen and returns
\* OK exactly when term_show_buffer() is false for the buffer; in
\* Terminal-Normal mode it draws nothing, while the job's output still goes
\* to the engine.
C30_OneRenderSource ==
    [][ upd_call'.flip # upd_call.flip =>
          /\ (upd_call'.ret = "OK") <=> ~term_show_buffer
          /\ upd_call'.ret \in {"OK", "FAIL"}
          /\ upd_call'.ret = "OK" =>
                \E wp \in Showing(wins') :
                    upd_call'.lines = DrawnRows(screen', wins'[wp], tl_rows', tl_cols')
          /\ upd_call'.ret = "FAIL" => upd_call'.lines = << >> ]_vars

C30_Witness ==
    /\ tl_vterm /\ tl_terminal_mode
    /\ upd_call.ret = "FAIL"
    /\ \E r \in 1..Len(screen) : \E c \in 1..Len(screen[r]) : screen[r][c].chars = CharA
    /\ \A i \in 1..Len(tl_scrollback) : tl_scrollback[i].sb_cols = 0

\* The window and the columns a recorded term_update_window() call drew for.
DrawnWin == wins'[upd_call'.wp]
DrawnMaxCol == IF DrawnWin.w < tl_cols' THEN DrawnWin.w ELSE tl_cols'

\* C31: term_update_window() writes at most MIN(w_width, tl_cols) columns of
\* a host row and never more than w_width, also with a cell of width 2 in the
\* last column it draws; a cell of width 2 takes two host columns, the second
\* one blank; a window row at or below tl_rows gets no column.
C31_RowsStayInsideWindow ==
    [][ (upd_call'.flip # upd_call.flip /\ upd_call'.ret = "OK") =>
          \A r \in 1..DrawnWin.h :
             /\ Len(upd_call'.lines[r]) <= DrawnMaxCol
             /\ Len(upd_call'.lines[r]) <= DrawnWin.w
             /\ r > tl_rows' => upd_call'.lines[r] = << >>
             /\ \A k \in 1..Len(upd_call'.lines[r]) :
                   (r <= tl_rows' /\ vterm_screen_get_cell(screen', r, k).cell.width = 2) =>
                      /\ upd_call'.lines[r][k] = screen'[r][k].chars
                      /\ k + 1 <= Len(upd_call'.lines[r]) => upd_call'.lines[r][k + 1] = NUL
      ]_vars

\* C32: term_job_ended() clears the title and the status text and changes
\* nothing else of the session: the vterm, the mode, the channel-closed flag,
\* the size, the scrollback and the buffer stay; until the channel is closed
\* the vterm is there, so write_to_term() still writes the job's output.
C32_JobEndedKeepsSession ==
    [][ /\ (tl_job = "started" /\ tl_job' = "ended") =>
             /\ tl_title' = "NULL" /\ tl_status_text' = "NULL"
             /\ UNCHANGED << tl_vterm, tl_terminal_mode, tl_channel_closed, ch_open, tl_rows,
                             tl_cols, tl_rows_fixed, tl_cols_fixed, tl_scrollback,
                             tl_scrollback_scrolled, buf_lines, screen, wins, dirtyVars >>
        /\ (tl_job' = "ended" /\ ~tl_channel_closed') => (tl_vterm' /\ ~NotWriting')
      ]_vars

C32_Witness ==
    /\ tl_job = "ended" /\ ~tl_channel_closed /\ tl_vterm
    /\ tl_title # "NULL"
    /\ \E r \in 1..Len(screen) : \E c \in 1..Len(screen[r]) : screen[r][c].chars = CharA

\* C33: from every state in Terminal-Normal mode the loop of
\* term_leave_terminal_mode() that removes the flushed lines comes to its
\* end, also when the screen was empty and nothing had scrolled at CTRL-W N
\* (the buffer holds its one empty line and the scrollback no line).
C33_RollbackLoopEnds ==
    term_in_terminal_mode =>
        ~RollbackLoop(tl_scrollback, buf_lines, tl_scrollback_scrolled).fault

\* Buffer line i holds the text of scrollback entry i; with no entry the
\* buffer holds its one empty line.
BufferFollowsStore ==
    IF Len(tl_scrollback) = 0 THEN buf_lines = EmptyBuffer
    ELSE /\ ml_line_count(buf_lines) = Len(tl_scrollback)
         /\ \A i \in 1..Len(tl_scrollback) : buf_lines[i] = LineText(tl_scrollback[i])

\* C34: while the scrollback has not been freed its length is not negative
\* and buffer line i holds the text of entry i (with no entry, the buffer
\* holds its one empty line); no operation takes an entry from an empty
\* scrollback or frees a cell array twice.
C34_StoreAndBufferAligned ==
    /\ ~fault
    /\ Len(tl_scrollback) >= 0
    /\ BufferFollowsStore

\* C35: whenever the session is back in Job mode after CTRL-W N, job output
\* and term_leave_terminal_mode() in any order, the scrollback holds the rows
\* of the sb_pushline callbacks in their order and nothing else: it is
\* tl_scrollback_scrolled long, and no row the flush of CTRL-W N appended is
\* left in the scrollback or the buffer.
C35_LiveStoreIsPushedRows ==
    [][ /\ (tl_vterm' /\ ~tl_terminal_mode' /\ ~fault') =>
              Len(tl_scrollback') = tl_scrollback_scrolled'
        /\ (LeaveStep /\ ~tl_channel_closed /\ ~fault') =>
              /\ tl_scrollback' = PushedRows
              /\ buf_lines' = DocOf(PushedRows) ]_vars

\* C36: a session in Terminal-Normal mode has its vterm: the vterm is freed
\* only in a step that leaves the mode off, and the mode is switched on only
\* while the vterm exists and the job is running.
C36_FrozenHasVterm ==
    [][ /\ (tl_terminal_mode' /\ ~fault') => tl_vterm'
        /\ (tl_vterm /\ ~tl_vterm') => ~tl_terminal_mode'
        /\ EnterStep => (tl_vterm /\ term_job_running /\ tl_vterm') ]_vars

C36_Witness ==
    /\ tl_terminal_mode /\ tl_vterm
    /\ tl_channel_closed /\ tl_job = "ended"
    /\ Len(tl_scrollback) > 0

\* C37: when tl_rows and tl_cols already are the size the windows lead to
\* (two windows of heights 24 and 30 with tl_rows 24, say), redrawing a
\* window that shows the terminal does not change the size of the vterm and
\* reports no size to the job: term_report_winsize() is called only when the
\* size of the vterm changes.
C37_NoReportWithoutSizeChange ==
    [][ winsize_report' # << >> =>
          /\ winsize_report' = << tl_rows', tl_cols' >>
          /\ << tl_rows', tl_cols' >> # << tl_rows, tl_cols >> ]_vars




\* The rows of the screen the finishing flush captures, row 0 first.
FinalRows == ExpectedFlush(screen, tl_rows, tl_cols)

\* C38: in a finished session, whatever path led there, term_getline(row)
\* returns buffer line row + tl_scrollback_scrolled + 1 and term_scrape(row)
\* the cells of store entry row + tl_scrollback_scrolled, which are the same
\* captured line; for every row up to the last non-empty row of the final
\* screen that line is the content of that row of the final screen.  The
\* lines stay what they are while the session is finished; the store stays
\* or is freed as a whole when the host changes the buffer.
C38_FinishedRowsAddressed ==
    [][ /\ (line_call'.flip # line_call.flip /\ ~tl_vterm) =>
              LET row == line_call'.row
                  n == row + tl_scrollback_scrolled
              IN /\ line_call'.fn = "getline" =>
                      /\ line_call'.found <=> (n + 1 >= 1 /\ n + 1 <= Len(buf_lines))
                      /\ line_call'.found => line_call'.text = buf_lines[n + 1]
                 /\ line_call'.fn = "scrape" =>
                      line_call'.cells =
                          IF n >= 0 /\ n < Len(tl_scrollback)
                          THEN SubSeq(tl_scrollback[n + 1].sb_cells, 1,
                                      MIN(tl_cols, tl_scrollback[n + 1].sb_cols))
                          ELSE << >>
                 /\ (n >= 0 /\ n < Len(tl_scrollback)) =>
                      /\ n + 1 <= Len(buf_lines)
                      /\ buf_lines[n + 1] = LineText(tl_scrollback[n + 1])
        /\ FinishStep =>
              \A row \in 0..(Len(FinalRows) - 1) :
                 /\ GetLine(FALSE, << >>, buf_lines', tl_scrollback_scrolled', tl_cols', row)
                       = [found |-> TRUE, text |-> LineText(FinalRows[row + 1])]
                 /\ Scrape(FALSE, << >>, tl_scrollback', tl_scrollback_scrolled', tl_cols',
                           row, 0) = FinalRows[row + 1].sb_cells
        /\ (~tl_vterm /\ ~tl_vterm') =>
              /\ UNCHANGED << buf_lines, tl_scrollback_scrolled, tl_cols >>
              /\ tl_scrollback' = tl_scrollback \/ tl_scrollback' = << >>
      ]_vars

C38_Witness ==
    /\ ~tl_vterm /\ ~fault
    /\ tl_scrollback_scrolled = 2
    /\ line_call.fn = "scrape" /\ line_call.row = 1
    /\ line_call.cells = << EmptyCell, Cell(CharA) >>
    /\ Len(tl_scrollback) = 4 /\ Len(buf_lines) = 4
    /\ buf_lines[4] = << SPACE, CharA >>
====
